---- MODULE Spec2Model ----
(***************************************************************************)
(* Poly-Mach trading runtime (rust-bot): state store, circuit breaker,     *)
(* risk pipeline, strategy engine risk filter and paper executor.          *)
(*                                                                         *)
(* Numbers.  A rust_decimal::Decimal is modelled by an integer count of a  *)
(* fixed unit.  The arithmetic of the risk code is scale free (sums,       *)
(* differences, comparisons, ratios), so a specification fixes the unit by *)
(* the inputs it draws:                                                    *)
(*   - BreakerSpec and Spec count cents (1 = $0.01);                       *)
(*   - PaperSpec counts 1/(FeeDen * SlipDen) of a cent, the grid on which  *)
(*     the taker fee (0.001) and the slippage (0.0005) of whole-cent       *)
(*     prices are exact.                                                   *)
(* Fractions such as 0.10 or 0.98 are carried in hundredths (PctScale).    *)
(* Option<T> is the empty sequence (None) or a one-element sequence.       *)
(***************************************************************************)
EXTENDS Integers, Sequences, FiniteSets, TLC

VARIABLES
    balance,        \* StateManager.inner.balance
    markets,        \* StateManager.inner.markets   : slug -> Option<MarketState>
    positions,      \* StateManager.inner.positions : (slug, side) -> Option<PositionState>
    orders,         \* StateManager.inner.orders    : order_id -> Option<OrderState>
    rm,             \* RiskManager: config, starting_equity, circuit_breaker
    risk_call,      \* the latest call on the risk pipeline, with what it returned
    cb,             \* a stand-alone CircuitBreaker
    cb_call,        \* the latest call made on cb, with the breaker it was made on
    orderbook,      \* OrderBookTracker.inner: books and tops, slug -> Option
    pe,             \* PaperExecutor
    pe_call,        \* the latest PaperExecutor call, with its ExecResult
    ob_writer,      \* the tracker call holding the RwLock for writing, if any
    ob_call,        \* the latest completed OrderBookTracker call
    req,            \* a PolymarketClient::request in progress
    feed,           \* the market feed: its cycles and what it polled
    sys,            \* the tasks of main: where each is, and the shutdown notifies
    mm,             \* MarketMakerStrategy, with its latest call
    la,             \* LiveArbitrageStrategy, with its latest call
    le              \* LiveExecutor and the venue it reconciles with

stateVars   == <<balance, markets, positions, orders>>
riskVars    == <<rm, risk_call>>
breakerVars == <<cb, cb_call>>
paperVars   == <<orderbook, pe, pe_call>>
trackerVars == <<ob_writer, ob_call>>
stratVars   == <<sys, mm, la, le>>
netVars     == <<trackerVars, req, feed, stratVars>>
vars        == <<stateVars, riskVars, breakerVars, paperVars, netVars>>

-----------------------------------------------------------------------------
(* Option, small helpers                                                   *)

None == << >>

Some(v) == <<v>>

IsSome(o) == o # None

Unwrap(o) == o[1]

Max(a, b) == IF a >= b THEN a ELSE b

Min(a, b) == IF a <= b THEN a ELSE b

\* Fractions (drawdown percentages, cash buffer, exposure percentage) are
\* Decimals below 1; the model carries them in hundredths.
PctScale == 100

Slugs == {"mkt-a", "mkt-b"}

Sides == {"YES", "NO"}

PosKeys == Slugs \X Sides

\* state_manager.rs position_key: "{slug}:{side}"
position_key(slug, side) == <<slug, side>>

-----------------------------------------------------------------------------
(* CircuitBreaker  (risk/circuit_breaker.rs)                               *)

\* CircuitBreaker::new
CircuitBreakerNew(daily_loss_limit, max_drawdown_pct) ==
    [ daily_loss_limit |-> daily_loss_limit,
      max_drawdown_pct |-> max_drawdown_pct,
      starting_equity  |-> 0,
      peak_equity      |-> 0,
      tripped          |-> FALSE,
      trip_reason      |-> None ]

\* CircuitBreaker::initialize
initialize(b, equity) ==
    [ b EXCEPT !.starting_equity = equity,
               !.peak_equity     = equity,
               !.tripped         = FALSE,
               !.trip_reason     = None ]

\* CircuitBreaker::trip
trip(b, reason) ==
    [ b EXCEPT !.tripped = TRUE, !.trip_reason = Some(reason) ]

\* The daily-loss test of update: starting_equity - current_equity >= limit.
DailyLossHit(b, current_equity) ==
    b.starting_equity - current_equity >= b.daily_loss_limit

\* The drawdown test of update, on the peak already raised by this update:
\* (peak - current) / peak >= max_drawdown_pct, with peak > 0.
DrawdownHit(b, current_equity) ==
    /\ b.peak_equity > 0
    /\ (b.peak_equity - current_equity) * PctScale
           >= b.max_drawdown_pct * b.peak_equity

\* A breaker that re-evaluates its thresholds on every update, also when
\* it is already tripped (the early return of update dropped).
update_rearming(b, current_equity) ==
    LET peaked == IF current_equity > b.peak_equity
                  THEN [ b EXCEPT !.peak_equity = current_equity ]
                  ELSE b
    IN  IF DailyLossHit(peaked, current_equity)
        THEN trip(peaked, "Daily loss limit exceeded")
        ELSE IF DrawdownHit(peaked, current_equity)
        THEN trip(peaked, "Max drawdown exceeded")
        ELSE [ peaked EXCEPT !.tripped = FALSE, !.trip_reason = None ]

\* A breaker whose thresholds are exclusive (> instead of >=).
update_exclusive(b, current_equity) ==
    IF b.tripped THEN b
    ELSE
      LET peaked == IF current_equity > b.peak_equity
                    THEN [ b EXCEPT !.peak_equity = current_equity ]
                    ELSE b
      IN  IF peaked.starting_equity - current_equity > peaked.daily_loss_limit
          THEN trip(peaked, "Daily loss limit exceeded")
          ELSE IF /\ peaked.peak_equity > 0
                  /\ (peaked.peak_equity - current_equity) * PctScale
                         > peaked.max_drawdown_pct * peaked.peak_equity
          THEN trip(peaked, "Max drawdown exceeded")
          ELSE peaked

\* CircuitBreaker::update
update(b, current_equity) ==
    IF b.tripped THEN b
    ELSE
      LET peaked == IF current_equity > b.peak_equity
                    THEN [ b EXCEPT !.peak_equity = current_equity ]
                    ELSE b
      IN  IF DailyLossHit(peaked, current_equity)
          THEN trip(peaked, "Daily loss limit exceeded")
          ELSE IF DrawdownHit(peaked, current_equity)
          THEN trip(peaked, "Max drawdown exceeded")
          ELSE peaked

\* CircuitBreaker::can_trade
can_trade(b) ==
    IF b.tripped THEN <<FALSE, b.trip_reason>> ELSE <<TRUE, None>>

\* CircuitBreaker::emergency_stop
emergency_stop(b, reason) == trip(b, reason)

\* CircuitBreaker::reset
reset(b, new_equity) == initialize(b, new_equity)

\* CircuitBreaker::is_tripped
is_tripped(b) == b.tripped

-----------------------------------------------------------------------------
(* Signals  (data/models.rs)                                               *)

Actions == {"BuyYes", "SellYes", "BuyNo", "SellNo", "CancelAll"}

\* SignalAction::is_buy / Signal::is_buy
is_buy(signal) == signal.action \in {"BuyYes", "BuyNo"}

\* SignalAction::is_sell / Signal::is_sell
is_sell(signal) == signal.action \in {"SellYes", "SellNo"}

\* SignalAction::is_cancel / Signal::is_cancel
is_cancel(signal) == signal.action = "CancelAll"

\* Signal::notional
notional(signal) == signal.price * signal.quantity

\* derive(PartialOrd, Ord) on Urgency: Low < Medium < High < Critical
UrgencyRank(u) ==
    CASE u = "Low"      -> 0
      [] u = "Medium"   -> 1
      [] u = "High"     -> 2
      [] u = "Critical" -> 3

-----------------------------------------------------------------------------
(* StateManager  (state/state_manager.rs)                                  *)

\* PositionState::cost_basis
cost_basis(p) == p.avg_price * p.quantity

\* mark_to_market: the current bid of the held side when the market row
\* has one, else the cost basis.
mark_to_market(key, p, mk) ==
    LET m == mk[key[1]]
    IN  IF IsSome(m)
        THEN LET current_price == IF key[2] = "YES"
                                  THEN Unwrap(m).yes_bid
                                  ELSE Unwrap(m).no_bid
             IN  IF IsSome(current_price)
                 THEN Unwrap(current_price) * p.quantity
                 ELSE cost_basis(p)
        ELSE cost_basis(p)

RECURSIVE MtmSum(_, _, _)
MtmSum(keys, pos, mk) ==
    IF keys = {} THEN 0
    ELSE LET k == CHOOSE x \in keys : TRUE
         IN  (IF IsSome(pos[k]) THEN mark_to_market(k, Unwrap(pos[k]), mk) ELSE 0)
             + MtmSum(keys \ {k}, pos, mk)

\* StateManager::get_total_position_value
get_total_position_value(pos, mk) == MtmSum(PosKeys, pos, mk)

\* StateManager::get_total_equity
get_total_equity(bal, pos, mk) == bal + get_total_position_value(pos, mk)

\* StateManager::update_position: a quantity <= 0 removes the key.
update_position(pos, slug, side, quantity, avg_price) ==
    IF quantity <= 0
    THEN [ pos EXCEPT ![position_key(slug, side)] = None ]
    ELSE [ pos EXCEPT ![position_key(slug, side)] =
               Some([ quantity |-> quantity, avg_price |-> avg_price ]) ]

\* StateManager::get_position: YES first, then NO.
get_position(pos, slug) ==
    IF IsSome(pos[position_key(slug, "YES")])
    THEN pos[position_key(slug, "YES")]
    ELSE pos[position_key(slug, "NO")]

\* StateManager::remove_position: both sides of the market.
remove_position(pos, slug) ==
    [ pos EXCEPT ![position_key(slug, "YES")] = None,
                 ![position_key(slug, "NO")]  = None ]

\* StateManager::position_count
position_count(pos) == Cardinality({ k \in PosKeys : IsSome(pos[k]) })

\* StateManager::market_exposure: YES and NO cost bases of the slug.
market_exposure(pos, slug) ==
    LET yes_exp == IF IsSome(pos[position_key(slug, "YES")])
                   THEN cost_basis(Unwrap(pos[position_key(slug, "YES")]))
                   ELSE 0
        no_exp  == IF IsSome(pos[position_key(slug, "NO")])
                   THEN cost_basis(Unwrap(pos[position_key(slug, "NO")]))
                   ELSE 0
    IN  yes_exp + no_exp

-----------------------------------------------------------------------------
(* Exact fractions for the Kelly sizer.  A fraction is <<n, d>> with d > 0 *)
(* in lowest terms; the sizer's Decimal quotients are taken exactly.       *)

RECURSIVE GCD(_, _)
GCD(a, b) == IF b = 0 THEN a ELSE GCD(b, a % b)

Abs(x) == IF x < 0 THEN -x ELSE x

Rat(n, d) ==
    LET s == IF d < 0 THEN -1 ELSE 1
        g == GCD(Abs(n), Abs(d))
    IN  IF n = 0 THEN <<0, 1>> ELSE <<(s * n) \div g, (s * d) \div g>>

RMul(x, y) == Rat(x[1] * y[1], x[2] * y[2])

RDiv(x, y) == Rat(x[1] * y[2], x[2] * y[1])

RSub(x, y) == Rat(x[1] * y[2] - y[1] * x[2], x[2] * y[2])

RLeq(x, y) == x[1] * y[2] <= y[1] * x[2]

RMin(x, y) == IF RLeq(x, y) THEN x ELSE y

RMax(x, y) == IF RLeq(x, y) THEN y ELSE x

\* Decimal::floor of a fraction (\div rounds towards minus infinity).
RFloor(x) == x[1] \div x[2]

-----------------------------------------------------------------------------
(* KellyPositionSizer  (risk/position_sizer.rs)                            *)
(* Prices and probabilities are Decimals in [0, 1] carried in hundredths;  *)
(* ONE is Decimal::ONE on that grid.  The f64 -> Decimal conversions of    *)
(* true_probability and confidence are taken as exact.                     *)

ONE == PctScale

\* KellyPositionSizer::new as RiskManager::new calls it
\* (max_position_pct = Decimal::ONE).
KellyPositionSizerNew(kelly_fraction, min_edge) ==
    [ kelly_fraction   |-> kelly_fraction,
      max_position_pct |-> PctScale,
      min_edge         |-> min_edge ]

\* The minimum-edge test of calculate_position_size, exclusive of equality
\* turned inclusive.
below_min_edge_inclusive(sizer, implied_edge) ==
    Abs(implied_edge) <= sizer.min_edge

\* calculate_position_size: implied_edge.abs() < self.min_edge
below_min_edge(sizer, implied_edge) ==
    Abs(implied_edge) < sizer.min_edge

\* KellyPositionSizer::calculate_position_size
\*   edge = [probability, confidence], both in hundredths.
calculate_position_size(sizer, bankroll, market_price, edge) ==
    IF bankroll <= 0 THEN None
    ELSE IF market_price <= 0 \/ market_price >= ONE THEN None
    ELSE
      LET implied_edge == edge.probability - market_price
      IN  IF below_min_edge(sizer, implied_edge) THEN None
          ELSE
            LET p == Rat(edge.probability, ONE)
                q == RSub(<<1, 1>>, p)
                b == RDiv(RSub(<<1, 1>>, Rat(market_price, ONE)),
                          Rat(market_price, ONE))
            IN  IF RLeq(b, <<0, 1>>) THEN None
                ELSE
                  LET kelly_full == RDiv(RSub(RMul(p, b), q), b)
                  IN  IF RLeq(kelly_full, <<0, 1>>) THEN None
                      ELSE
                        LET kelly_adjusted ==
                                RMin(RMax(RMul(RMul(kelly_full,
                                                    Rat(sizer.kelly_fraction, PctScale)),
                                               Rat(edge.confidence, PctScale)),
                                          <<0, 1>>),
                                     Rat(sizer.max_position_pct, PctScale))
                            kelly_notional == RMul(<<bankroll, 1>>, kelly_adjusted)
                        IN  IF RLeq(kelly_notional, <<0, 1>>) THEN None
                            ELSE
                              LET contracts ==
                                      RFloor(RDiv(kelly_notional, <<market_price, 1>>))
                              IN  IF contracts <= 0 THEN None
                                  ELSE Some([ edge           |-> implied_edge,
                                              kelly_full     |-> kelly_full,
                                              kelly_adjusted |-> kelly_adjusted,
                                              contracts      |-> contracts ])

-----------------------------------------------------------------------------
(* ExposureMonitor  (risk/exposure.rs)                                     *)

\* The correlation groups a monitor can hold (HashMap<String, Vec<String>>).
\* One group name keeps the iteration order of the map out of the result.
GroupNames == {"corr"}

RECURSIVE ExposureSum(_, _)
ExposureSum(slugs, pos) ==
    IF slugs = {} THEN 0
    ELSE LET s == CHOOSE x \in slugs : TRUE
         IN  market_exposure(pos, s) + ExposureSum(slugs \ {s}, pos)

\* ExposureMonitor::total_exposure
total_exposure(pos, mk) == get_total_position_value(pos, mk)

\* can_add_exposure without the per-market test.
can_add_exposure_no_market_limit(cfg, groups, pos, mk, market_slug, additional_exposure) ==
    LET total              == total_exposure(pos, mk)
        portfolio_headroom == cfg.max_portfolio_exposure - total
    IN  IF total + additional_exposure > cfg.max_portfolio_exposure
        THEN [ allowed |-> FALSE, reason |-> "Portfolio limit",
               max_additional_exposure |-> Max(portfolio_headroom, 0) ]
        ELSE [ allowed |-> TRUE, reason |-> "OK",
               max_additional_exposure |-> Max(portfolio_headroom, 0) ]

\* ExposureMonitor::can_add_exposure
can_add_exposure(cfg, groups, pos, mk, market_slug, additional_exposure) ==
    LET current_market  == market_exposure(pos, market_slug)
        market_headroom == cfg.max_position_per_market - current_market
        total           == total_exposure(pos, mk)
        portfolio_headroom == cfg.max_portfolio_exposure - total
        count           == position_count(pos)
        is_new_position == get_position(pos, market_slug) = None
        \* groups that hold the slug and whose limit the addition breaks
        broken == { g \in GroupNames :
                      /\ IsSome(groups[g])
                      /\ market_slug \in Unwrap(groups[g])
                      /\ ExposureSum(Unwrap(groups[g]), pos) + additional_exposure
                             > cfg.max_correlated_exposure }
    IN  IF current_market + additional_exposure > cfg.max_position_per_market
        THEN [ allowed |-> FALSE, reason |-> "Per-market limit",
               max_additional_exposure |-> Max(market_headroom, 0) ]
        ELSE IF total + additional_exposure > cfg.max_portfolio_exposure
        THEN [ allowed |-> FALSE, reason |-> "Portfolio limit",
               max_additional_exposure |->
                   Max(Min(portfolio_headroom, market_headroom), 0) ]
        ELSE IF is_new_position /\ count >= cfg.max_positions
        THEN [ allowed |-> FALSE, reason |-> "Max positions",
               max_additional_exposure |-> 0 ]
        ELSE IF broken # {}
        THEN LET g == CHOOSE x \in broken : TRUE
                 corr_headroom == cfg.max_correlated_exposure
                                      - ExposureSum(Unwrap(groups[g]), pos)
             IN  [ allowed |-> FALSE, reason |-> "Correlation group limit exceeded",
                   max_additional_exposure |->
                       Max(Min(Min(corr_headroom, market_headroom),
                               portfolio_headroom), 0) ]
        ELSE [ allowed |-> TRUE, reason |-> "OK",
               max_additional_exposure |->
                   Max(Min(market_headroom, portfolio_headroom), 0) ]

-----------------------------------------------------------------------------
(* RiskManager  (risk/risk_manager.rs)                                     *)

\* let cash_buffer = Decimal::new(98, 2)
CashBuffer == 98

\* RiskManager::new: starting equity read from the state, breaker
\* initialised with it, no correlation groups.
RiskManagerNew(config, bal, pos, mk) ==
    [ config             |-> config,
      position_sizer     |-> KellyPositionSizerNew(config.kelly_fraction, config.min_edge),
      correlation_groups |-> [ g \in GroupNames |-> None ],
      circuit_breaker    |-> initialize(
                                 CircuitBreakerNew(config.max_daily_loss,
                                                   config.max_drawdown_pct),
                                 get_total_equity(bal, pos, mk)),
      starting_equity    |-> get_total_equity(bal, pos, mk) ]

\* RiskManager::on_state_update
on_state_update(rmv) ==
    [ rmv EXCEPT !.circuit_breaker =
          update(@, get_total_equity(balance, positions, markets)) ]

\* RiskManager::reset_starting_equity
reset_starting_equity(rmv) ==
    LET equity == get_total_equity(balance, positions, markets)
    IN  [ rmv EXCEPT !.starting_equity = equity,
                     !.circuit_breaker = initialize(@, equity) ]

\* RiskManager::set_correlation_group
set_correlation_group(rmv, group_name, group_markets) ==
    [ rmv EXCEPT !.correlation_groups[group_name] = Some(group_markets) ]

\* A drawdown gate that closes only beyond the limit.
is_new_buy_blocked_by_drawdown_strict(rmv) ==
    IF rmv.config.max_total_pnl_drawdown_pct_for_new_buys <= 0 THEN FALSE
    ELSE IF rmv.starting_equity <= 0 THEN FALSE
    ELSE LET current == get_total_equity(balance, positions, markets)
         IN  (rmv.starting_equity - current) * PctScale
                 > rmv.config.max_total_pnl_drawdown_pct_for_new_buys
                        * rmv.starting_equity

\* RiskManager::is_new_buy_blocked_by_drawdown
is_new_buy_blocked_by_drawdown(rmv) ==
    IF rmv.config.max_total_pnl_drawdown_pct_for_new_buys <= 0 THEN FALSE
    ELSE IF rmv.starting_equity <= 0 THEN FALSE
    ELSE LET current == get_total_equity(balance, positions, markets)
         IN  (rmv.starting_equity - current) * PctScale
                 >= rmv.config.max_total_pnl_drawdown_pct_for_new_buys
                        * rmv.starting_equity

\* A cash check that rounds up.
max_affordable_qty_ceiling(available_cash, price) ==
    (available_cash * CashBuffer + PctScale * price - 1) \div (PctScale * price)

\* The cash check of evaluate_signal: floor((balance * 0.98) / price).
max_affordable_qty(available_cash, price) ==
    (available_cash * CashBuffer) \div (PctScale * price)

\* A minimum-trade-size test that lets everything through.
below_min_trade_size_never(cfg, trade_notional) == FALSE

\* The minimum-trade-size test of evaluate_signal (made on the notional
\* before the exposure check and again after a reduction).
below_min_trade_size(cfg, trade_notional) ==
    trade_notional < cfg.min_trade_size

\* A tripped breaker that lets every order through.
breaker_exit_only_never(signal) == TRUE

\* What evaluate_signal lets through while the breaker refuses to trade.
breaker_exit_only(signal) == is_sell(signal)

Rejected(reason) ==
    [ approved |-> FALSE, signal |-> None, reason |-> reason ]

Approved(signal, reason) ==
    [ approved |-> TRUE, signal |-> Some(signal), reason |-> reason ]

\* evaluate_signal from the quantity checks on (the breaker allows trading):
\* cash check, Kelly sizing, minimum trade size, drawdown gate, exposure.
\* rmv is the manager after on_state_update.
evaluate_sized(rmv, signal) ==
    LET price == signal.price
        cfg   == rmv.config
    IN
    IF signal.quantity <= 0 THEN Rejected("Rejected: non-positive quantity")
    ELSE
    LET cash_checked == is_buy(signal) /\ price > 0
        affordable   == max_affordable_qty(balance, price)
    IN
    IF cash_checked /\ affordable <= 0
    THEN Rejected("Rejected: insufficient cash")
    ELSE
    LET qty1  == IF cash_checked /\ signal.quantity > affordable
                 THEN affordable ELSE signal.quantity
        kelly == IF is_buy(signal) /\ IsSome(signal.true_probability)
                 THEN calculate_position_size(
                          rmv.position_sizer,
                          get_total_equity(balance, positions, markets),
                          price,
                          [ probability |-> Unwrap(signal.true_probability),
                            confidence  |-> signal.confidence ])
                 ELSE None
        sized == is_buy(signal) /\ IsSome(signal.true_probability)
    IN
    IF sized /\ kelly = None
    THEN Rejected("Rejected: insufficient edge/confidence")
    ELSE
    LET qty2 == IF sized THEN Min(qty1, Unwrap(kelly).contracts) ELSE qty1
        trade_notional == price * qty2
    IN
    IF below_min_trade_size(cfg, trade_notional)
    THEN Rejected("Rejected: below min trade size")
    ELSE IF ~is_buy(signal)
    THEN Approved([ signal EXCEPT !.quantity = qty2 ], "Approved")
    ELSE IF is_new_buy_blocked_by_drawdown(rmv)
    THEN Rejected("Rejected: portfolio drawdown blocks new buys")
    ELSE
    LET check == can_add_exposure(cfg, rmv.correlation_groups, positions, markets,
                                  signal.market_slug, trade_notional)
        current_total      == total_exposure(positions, markets)
        equity             == get_total_equity(balance, positions, markets)
        \* equity * max_portfolio_exposure_pct, compared on the PctScale grid
        max_additional_pct_scaled ==
            Max(equity * cfg.max_portfolio_exposure_pct - current_total * PctScale, 0)
        \* min(check.max_additional_exposure, max_additional_pct), times PctScale
        max_additional_scaled ==
            Min(check.max_additional_exposure * PctScale, max_additional_pct_scaled)
    IN
    IF ~check.allowed /\ max_additional_scaled <= 0
    THEN Rejected(check.reason)
    ELSE
    LET over == trade_notional * PctScale > max_additional_scaled
        resizable == max_additional_scaled >= cfg.min_trade_size * PctScale
        reduced_qty == max_additional_scaled \div (PctScale * price)
    IN
    IF over /\ ~resizable THEN Rejected("Rejected: exposure limits")
    ELSE IF over /\ reduced_qty <= 0 THEN Rejected("Rejected: exposure limits")
    ELSE
    LET qty3 == IF over THEN Min(qty2, reduced_qty) ELSE qty2
    IN
    IF below_min_trade_size(cfg, price * qty3)
    THEN Rejected("Rejected: below min trade size")
    ELSE Approved([ signal EXCEPT !.quantity = qty3 ], "Approved")

\* RiskManager::evaluate_signal: the decision and the manager after the call
\* (the call updates the breaker unless the signal is a cancel).
evaluate_signal(rmv, signal) ==
    IF is_cancel(signal)
    THEN [ decision |-> Approved(signal, "Approved: cancel"), rm |-> rmv ]
    ELSE
      LET updated == on_state_update(rmv)
          ct      == can_trade(updated.circuit_breaker)
      IN  IF ~ct[1]
          THEN IF breaker_exit_only(signal)
               THEN [ decision |-> Approved(signal,
                                       "Approved: circuit breaker allows exits"),
                      rm |-> updated ]
               ELSE [ decision |-> Rejected("Circuit breaker"), rm |-> updated ]
          ELSE [ decision |-> evaluate_sized(updated, signal), rm |-> updated ]

-----------------------------------------------------------------------------
(* StrategyEngine::filter_through_risk  (strategies/engine.rs)             *)

\* A sort that puts the lowest urgency first.
sort_by_urgency_ascending(signals) ==
    SelectSeq(signals, LAMBDA x : x.urgency = "Low")
      \o SelectSeq(signals, LAMBDA x : x.urgency = "Medium")
      \o SelectSeq(signals, LAMBDA x : x.urgency = "High")
      \o SelectSeq(signals, LAMBDA x : x.urgency = "Critical")

\* signals.sort_by(|a, b| b.urgency.cmp(&a.urgency)): a stable sort,
\* highest urgency first.
sort_by_urgency(signals) ==
    SelectSeq(signals, LAMBDA x : x.urgency = "Critical")
      \o SelectSeq(signals, LAMBDA x : x.urgency = "High")
      \o SelectSeq(signals, LAMBDA x : x.urgency = "Medium")
      \o SelectSeq(signals, LAMBDA x : x.urgency = "Low")

\* The for loop of filter_through_risk over the sorted signals.  Nothing
\* in the loop writes the state store: every signal of the batch is
\* evaluated against the same balance, positions and markets.  The
\* decision r of one turn is drawn from a singleton set, which fixes its
\* value before the next turn reads r.rm.
RECURSIVE risk_loop(_, _, _, _)
risk_loop(signals, rmv, approved, rejected) ==
    IF signals = << >>
    THEN [ approved_signals |-> approved, rejected_count |-> rejected, rm |-> rmv ]
    ELSE CHOOSE out \in
             { IF r.decision.approved
               THEN risk_loop(Tail(signals), r.rm,
                              Append(approved, Unwrap(r.decision.signal)), rejected)
               ELSE risk_loop(Tail(signals), r.rm, approved, rejected + 1)
               : r \in { evaluate_signal(rmv, Head(signals)) } } : TRUE

\* StrategyEngine::filter_through_risk
filter_through_risk(signals, rmv) ==
    risk_loop(sort_by_urgency(signals), rmv, << >>, 0)

-----------------------------------------------------------------------------
(* Orders of the state store  (state/state_manager.rs)                     *)

\* Order ids "paper-000001", "paper-000002", ... are modelled by their
\* numbers; MaxOrders bounds how many the executor hands out.
MaxOrders == 2

OrderIds == 1..MaxOrders

\* StateManager::add_order
add_order(ords, order) == [ ords EXCEPT ![order.order_id] = Some(order) ]

\* StateManager::update_order: status and filled_quantity are Options; an
\* unknown id is left alone.
update_order(ords, order_id, status, filled_quantity) ==
    IF IsSome(ords[order_id])
    THEN LET o  == Unwrap(ords[order_id])
             o1 == IF IsSome(status)
                   THEN [ o EXCEPT !.status = Unwrap(status) ] ELSE o
             o2 == IF IsSome(filled_quantity)
                   THEN [ o1 EXCEPT !.filled_quantity = Unwrap(filled_quantity) ]
                   ELSE o1
         IN  [ ords EXCEPT ![order_id] = Some(o2) ]
    ELSE ords

\* StateManager::remove_order
remove_order(ords, order_id) == [ ords EXCEPT ![order_id] = None ]

-----------------------------------------------------------------------------
(* OrderBookTracker  (data/orderbook.rs, data/models.rs)                   *)
(* A book side is [bids, asks], each a sequence of [price, quantity].      *)

RECURSIVE MaxPrice(_)
MaxPrice(levels) ==
    IF Len(levels) = 1 THEN levels[1].price
    ELSE Max(levels[1].price, MaxPrice(Tail(levels)))

RECURSIVE MinPrice(_)
MinPrice(levels) ==
    IF Len(levels) = 1 THEN levels[1].price
    ELSE Min(levels[1].price, MinPrice(Tail(levels)))

\* OrderBookSide::best_bid
best_bid(book_side) ==
    IF book_side.bids = << >> THEN None ELSE Some(MaxPrice(book_side.bids))

\* OrderBookSide::best_ask
best_ask(book_side) ==
    IF book_side.asks = << >> THEN None ELSE Some(MinPrice(book_side.asks))

\* OrderBookTracker::compute_top
compute_top(book) ==
    [ yes_best_bid |-> best_bid(book.yes),
      yes_best_ask |-> best_ask(book.yes),
      no_best_bid  |-> best_bid(book.no),
      no_best_ask  |-> best_ask(book.no) ]

\* OrderBookTracker::new
OrderBookTrackerNew ==
    [ books |-> [ s \in Slugs |-> None ], tops |-> [ s \in Slugs |-> None ] ]

\* OrderBookTracker::update
tracker_update(tracker, slug, book) ==
    [ books |-> [ tracker.books EXCEPT ![slug] = Some(book) ],
      tops  |-> [ tracker.tops  EXCEPT ![slug] = Some(compute_top(book)) ] ]

\* A tracker whose readers do not wait for the writer.
readable_always(writer) == TRUE

\* self.inner.read(): a reader gets the RwLock only while no call holds it
\* for writing.
readable(writer) == writer = None

\* One statement of a writing call w = [op, slug, arg, pc] made under the
\* write lock it took on entry: the tracker after it, and the call after it
\* (None once the call has returned and dropped the lock).
write_step(tracker, w) ==
    CASE w.op = "update" /\ w.pc = 1 ->
           [ tracker |-> [ tracker EXCEPT !.tops[w.slug] = Some(compute_top(w.arg)) ],
             writer  |-> Some([ w EXCEPT !.pc = 2 ]) ]
      [] w.op = "update" /\ w.pc = 2 ->
           [ tracker |-> [ tracker EXCEPT !.books[w.slug] = Some(w.arg) ],
             writer  |-> None ]
      [] w.op = "update_side" /\ w.pc = 1 ->
           IF IsSome(tracker.books[w.slug])
           THEN [ tracker |-> [ tracker EXCEPT !.books[w.slug] =
                                  Some(IF w.arg[1] = "YES"
                                       THEN [ Unwrap(@) EXCEPT !.yes = w.arg[2] ]
                                       ELSE [ Unwrap(@) EXCEPT !.no  = w.arg[2] ]) ],
                  writer  |-> Some([ w EXCEPT !.pc = 2 ]) ]
           ELSE [ tracker |-> tracker, writer |-> None ]
      [] w.op = "update_side" /\ w.pc = 2 ->
           [ tracker |-> [ tracker EXCEPT !.tops[w.slug] =
                             Some(compute_top(Unwrap(tracker.books[w.slug]))) ],
             writer  |-> None ]
      [] w.op = "remove" /\ w.pc = 1 ->
           [ tracker |-> [ tracker EXCEPT !.books[w.slug] = None ],
             writer  |-> Some([ w EXCEPT !.pc = 2 ]) ]
      [] w.op = "remove" /\ w.pc = 2 ->
           [ tracker |-> [ tracker EXCEPT !.tops[w.slug] = None ],
             writer  |-> None ]

\* OrderBookTracker::get_full
get_full(tracker, slug) == tracker.books[slug]

\* OrderBookTracker::get_top
get_top(tracker, slug) == tracker.tops[slug]

\* TopOfBook::completeness_sum
completeness_sum(top) ==
    IF IsSome(top.yes_best_ask) /\ IsSome(top.no_best_ask)
    THEN Some(Unwrap(top.yes_best_ask) + Unwrap(top.no_best_ask))
    ELSE None

\* The margin test of scan_completeness_arb met by a margin equal to
\* min_margin too.
exceeds_min_margin_inclusive(net_margin, min_margin) == net_margin >= min_margin

\* scan_completeness_arb: net_margin > min_margin
exceeds_min_margin(net_margin, min_margin) == net_margin > min_margin

\* OrderBookTracker::scan_completeness_arb; one is Decimal::ONE on the
\* money grid of the tops.  The Vec it returns is in the HashMap's
\* iteration order: the result is the set of its elements.
scan_completeness_arb(tracker, min_margin, one) ==
    LET fee_rate == <<1, 1000>>
        signal(slug) ==
            LET top          == Unwrap(tracker.tops[slug])
                combined     == Unwrap(completeness_sum(top))
                gross_margin == one - combined
                fee_cost     == (combined * fee_rate[1]) \div fee_rate[2]
            IN  [ market_slug   |-> slug,
                  yes_ask       |-> Unwrap(top.yes_best_ask),
                  no_ask        |-> Unwrap(top.no_best_ask),
                  combined_cost |-> combined,
                  gross_margin  |-> gross_margin,
                  net_margin    |-> gross_margin - fee_cost ]
    IN  { signal(slug) : slug \in
            { sl \in DOMAIN tracker.tops :
                /\ IsSome(tracker.tops[sl])
                /\ IsSome(completeness_sum(Unwrap(tracker.tops[sl])))
                /\ ~(signal(sl).combined_cost >= one)
                /\ exceeds_min_margin(signal(sl).net_margin, min_margin) } }

-----------------------------------------------------------------------------
(* PaperExecutor  (execution/paper.rs)                                     *)
(* Money is counted on the grid on which the fee and the slippage of a     *)
(* whole-cent price are exact; a quotient that leaves the grid (a VWAP     *)
(* over levels of different prices, an average entry price) is rounded     *)
(* down to it, where a Decimal rounds at its 28th digit.                   *)

\* TAKER_FEE_RATE = "0.001", as numerator and denominator
TAKER_FEE_RATE == <<1, 1000>>

\* MARKET_ORDER_SLIPPAGE_BPS = "0.0005"
MARKET_ORDER_SLIPPAGE_BPS == <<1, 2000>>

\* One cent on the money grid of PaperSpec.
Cent == TAKER_FEE_RATE[2] * MARKET_ORDER_SLIPPAGE_BPS[2]

\* Decimal x times the fraction f.
MulFrac(x, f) == (x * f[1]) \div f[2]

\* SignalAction::to_intent
to_intent(action) ==
    CASE action = "BuyYes"    -> Some("BuyLong")
      [] action = "SellYes"   -> Some("SellLong")
      [] action = "BuyNo"     -> Some("BuyShort")
      [] action = "SellNo"    -> Some("SellShort")
      [] action = "CancelAll" -> None

\* OrderIntent::side
intent_side(intent) ==
    IF intent \in {"BuyLong", "SellLong"} THEN "YES" ELSE "NO"

\* OrderIntent::is_buy
intent_is_buy(intent) == intent \in {"BuyLong", "BuyShort"}

\* PaperPosition::new
PaperPositionNew(side, quantity, price) ==
    [ side |-> side, quantity |-> quantity, avg_price |-> price,
      total_cost |-> price * quantity ]

\* PaperPosition::add
add(pos, quantity, price) ==
    LET total_cost == pos.total_cost + price * quantity
        qty        == pos.quantity + quantity
    IN  [ pos EXCEPT !.total_cost = total_cost,
                     !.quantity   = qty,
                     !.avg_price  = IF qty > 0 THEN total_cost \div qty ELSE @ ]

\* PaperPosition::reduce: the position after, and the realized P&L.
reduce(pos, quantity, exit_price) ==
    LET close_qty == Min(quantity, pos.quantity)
    IN  IF close_qty <= 0 THEN [ pos |-> pos, pnl |-> 0 ]
        ELSE LET pnl  == (exit_price - pos.avg_price) * close_qty
                 left == pos.quantity - close_qty
             IN  IF left <= 0
                 THEN [ pos |-> [ pos EXCEPT !.quantity = 0, !.total_cost = 0,
                                             !.avg_price = 0 ],
                        pnl |-> pnl ]
                 ELSE [ pos |-> [ pos EXCEPT !.quantity = left,
                                             !.total_cost = @ - pos.avg_price * close_qty ],
                        pnl |-> pnl ]

\* PaperPerformance::new
PaperPerformanceNew(initial_equity) ==
    [ total_trades |-> 0, winning_trades |-> 0, losing_trades |-> 0,
      total_pnl |-> 0, max_equity |-> initial_equity, max_drawdown |-> 0,
      total_fees_paid |-> 0, total_volume |-> 0 ]

\* PaperPerformance::update_drawdown
update_drawdown(perf, current_equity) ==
    LET max_equity == Max(perf.max_equity, current_equity)
    IN  [ perf EXCEPT !.max_equity   = max_equity,
                      !.max_drawdown = Max(@, max_equity - current_equity) ]

\* PaperExecutor::new on a store holding initial_balance
PaperExecutorNew(initial_balance) ==
    [ initial_balance |-> initial_balance,
      positions       |-> [ k \in PosKeys |-> None ],
      resting_orders  |-> [ i \in OrderIds |-> None ],
      fill_history    |-> << >>,
      performance     |-> PaperPerformanceNew(initial_balance),
      next_order_id   |-> 1,
      fee_rate        |-> TAKER_FEE_RATE,
      slippage_bps    |-> MARKET_ORDER_SLIPPAGE_BPS ]

\* levels.sort_by(price), stable: ascending for asks, descending for bids.
RECURSIVE InsertLevel(_, _, _)
InsertLevel(sorted, level, ascending) ==
    IF sorted = << >> THEN <<level>>
    ELSE IF (ascending /\ level.price < Head(sorted).price)
              \/ (~ascending /\ level.price > Head(sorted).price)
         THEN <<level>> \o sorted
         ELSE <<Head(sorted)>> \o InsertLevel(Tail(sorted), level, ascending)

RECURSIVE SortLevels(_, _)
SortLevels(levels, ascending) ==
    IF levels = << >> THEN << >>
    ELSE InsertLevel(SortLevels(SubSeq(levels, 1, Len(levels) - 1), ascending),
                     levels[Len(levels)], ascending)

\* The fill loop shared by walk_levels and the simulate_limit_*_fill
\* functions: <<filled, total cost>> over the levels in order.
RECURSIVE FillLoop(_, _, _, _)
FillLoop(levels, requested_qty, filled, total_cost) ==
    IF levels = << >> \/ filled >= requested_qty
    THEN <<filled, total_cost>>
    ELSE LET can_fill == Min(Head(levels).quantity, requested_qty - filled)
         IN  FillLoop(Tail(levels), requested_qty, filled + can_fill,
                      total_cost + Head(levels).price * can_fill)

\* PaperExecutor::walk_levels: <<filled_quantity, vwap>>
walk_levels(levels, requested_qty) ==
    LET r == FillLoop(levels, requested_qty, 0, 0)
    IN  IF r[1] = 0 THEN <<0, 0>> ELSE <<r[1], r[2] \div r[1]>>

\* A walk of the asks that stops after the best level.
walk_asks_best_level_only(pex, book_side, requested_qty) ==
    LET asks == SortLevels(book_side.asks, TRUE)
        r    == walk_levels(IF asks = << >> THEN asks ELSE <<Head(asks)>>,
                            requested_qty)
    IN  IF r[1] = 0 THEN <<0, 0>>
        ELSE <<r[1], r[2] + MulFrac(r[2], pex.slippage_bps)>>

\* PaperExecutor::walk_asks_with_slippage
walk_asks_with_slippage(pex, book_side, requested_qty) ==
    LET r == walk_levels(SortLevels(book_side.asks, TRUE), requested_qty)
    IN  IF r[1] = 0 THEN <<0, 0>>
        ELSE <<r[1], r[2] + MulFrac(r[2], pex.slippage_bps)>>

\* PaperExecutor::walk_bids_with_slippage
walk_bids_with_slippage(pex, book_side, requested_qty) ==
    LET r == walk_levels(SortLevels(book_side.bids, FALSE), requested_qty)
    IN  IF r[1] = 0 THEN <<0, 0>>
        ELSE <<r[1], r[2] - MulFrac(r[2], pex.slippage_bps)>>

\* A limit buy simulation that takes asks at any price.
simulate_limit_buy_fill_any_price(book_side, limit_price, requested_qty) ==
    LET r == FillLoop(SortLevels(book_side.asks, TRUE), requested_qty, 0, 0)
    IN  IF r[1] = 0 THEN <<0, limit_price>> ELSE <<r[1], r[2] \div r[1]>>

\* PaperExecutor::simulate_limit_buy_fill
simulate_limit_buy_fill(book_side, limit_price, requested_qty) ==
    LET asks == SortLevels(SelectSeq(book_side.asks,
                                     LAMBDA a : a.price <= limit_price), TRUE)
        r    == FillLoop(asks, requested_qty, 0, 0)
    IN  IF r[1] = 0 THEN <<0, limit_price>> ELSE <<r[1], r[2] \div r[1]>>

\* PaperExecutor::simulate_limit_sell_fill
simulate_limit_sell_fill(book_side, limit_price, requested_qty) ==
    LET bids == SortLevels(SelectSeq(book_side.bids,
                                     LAMBDA b : b.price >= limit_price), FALSE)
        r    == FillLoop(bids, requested_qty, 0, 0)
    IN  IF r[1] = 0 THEN <<0, limit_price>> ELSE <<r[1], r[2] \div r[1]>>

\* A settlement that charges the fee on buys only.
settle_fee_on_buys_only(current_balance, is_buy_fill, fill_notional, fee) ==
    IF is_buy_fill THEN current_balance - fill_notional - fee
    ELSE current_balance + fill_notional

\* The balance update of record_fill: a buy pays notional + fee, a sell
\* receives notional - fee.
settle(current_balance, is_buy_fill, fill_notional, fee) ==
    IF is_buy_fill THEN current_balance - fill_notional - fee
    ELSE current_balance + fill_notional - fee

\* PaperExecutor::record_fill on the world w = [balance, positions, orders,
\* pe]: the world after, and the PaperFill.
record_fill(w, order_id, market_slug, side, is_buy_fill, fill_price, fill_qty) ==
    LET fill_notional == fill_price * fill_qty
        fee           == MulFrac(fill_notional, w.pe.fee_rate)
        new_balance   == settle(w.balance, is_buy_fill, fill_notional, fee)
        pos_key       == position_key(market_slug, side)
        held          == w.pe.positions[pos_key]
        bought        == add(IF IsSome(held) THEN Unwrap(held)
                             ELSE PaperPositionNew(side, 0, 0),
                             fill_qty, fill_price)
        sold          == reduce(Unwrap(held), fill_qty, fill_price)
        realized_pnl  == IF is_buy_fill \/ held = None THEN 0 ELSE sold.pnl
        pe_positions  ==
            IF is_buy_fill
            THEN [ w.pe.positions EXCEPT ![pos_key] = Some(bought) ]
            ELSE IF held = None THEN w.pe.positions
            ELSE IF sold.pos.quantity <= 0
            THEN [ w.pe.positions EXCEPT ![pos_key] = None ]
            ELSE [ w.pe.positions EXCEPT ![pos_key] = Some(sold.pos) ]
        \* sync to the state store
        new_positions ==
            IF IsSome(pe_positions[pos_key])
            THEN update_position(w.positions, market_slug, side,
                                 Unwrap(pe_positions[pos_key]).quantity,
                                 Unwrap(pe_positions[pos_key]).avg_price)
            ELSE remove_position(w.positions, market_slug)
        perf  == w.pe.performance
        perf1 == [ perf EXCEPT
                     !.total_trades    = @ + 1,
                     !.total_fees_paid = @ + fee,
                     !.total_volume    = @ + fill_notional,
                     !.winning_trades  = IF realized_pnl > 0 THEN @ + 1 ELSE @,
                     !.losing_trades   = IF realized_pnl < 0 THEN @ + 1 ELSE @,
                     !.total_pnl       = @ + realized_pnl ]
        perf2 == update_drawdown(perf1,
                                 get_total_equity(new_balance, new_positions, markets))
        fill  == [ order_id |-> order_id, market_slug |-> market_slug,
                   side |-> side, is_buy |-> is_buy_fill, price |-> fill_price,
                   quantity |-> fill_qty, fee |-> fee ]
    IN  [ w    |-> [ w EXCEPT !.balance   = new_balance,
                              !.positions = new_positions,
                              !.pe = [ @ EXCEPT !.positions    = pe_positions,
                                                !.performance  = perf2,
                                                !.fill_history = Append(@, fill) ] ],
          fill |-> fill ]

\* ExecResult
ExecResult(order_id, status, filled_quantity, avg_fill_price, fee, error) ==
    [ order_id |-> order_id, status |-> status,
      filled_quantity |-> filled_quantity, avg_fill_price |-> avg_fill_price,
      fee |-> fee, error |-> error ]

\* String::new() as an order id
NoOrderId == 0

\* The book side an order matches against: book.yes or book.no.
side_of_book(book, side) == IF side = "YES" THEN book.yes ELSE book.no

\* A fallback that fills at the signal price as it is.
fallback_fill_at_signal_price(pex, signal, is_buy_order) ==
    <<signal.quantity, signal.price>>

\* The fallback of execute_market_order when there is no book: the whole
\* quantity at the signal price with slippage.
fallback_fill(pex, signal, is_buy_order) ==
    <<signal.quantity,
      IF is_buy_order
      THEN signal.price + MulFrac(signal.price, pex.slippage_bps)
      ELSE signal.price - MulFrac(signal.price, pex.slippage_bps)>>

\* PaperExecutor::execute_market_order
execute_market_order(w, order_id, signal, intent, is_buy_order, book) ==
    LET side == intent_side(intent)
        walked ==
            IF IsSome(book)
            THEN IF is_buy_order
                 THEN walk_asks_with_slippage(w.pe, side_of_book(Unwrap(book), side),
                                              signal.quantity)
                 ELSE walk_bids_with_slippage(w.pe, side_of_book(Unwrap(book), side),
                                              signal.quantity)
            ELSE fallback_fill(w.pe, signal, is_buy_order)
        filled_qty == walked[1]
        avg_price  == walked[2]
    IN  IF filled_qty = 0
        THEN [ w |-> w,
               result |-> ExecResult(order_id, "Rejected", 0, None, 0,
                                     Some("No liquidity available in order book")) ]
        ELSE
          LET rf     == record_fill(w, order_id, signal.market_slug, side,
                                    is_buy_order, avg_price, filled_qty)
              status == IF filled_qty >= signal.quantity
                        THEN "Filled" ELSE "PartiallyFilled"
              order  == [ order_id |-> order_id, market_slug |-> signal.market_slug,
                          intent |-> intent, price |-> avg_price,
                          quantity |-> signal.quantity,
                          filled_quantity |-> filled_qty, status |-> status ]
          IN  [ w |-> [ rf.w EXCEPT !.orders = add_order(@, order) ],
                result |-> ExecResult(order_id, status, filled_qty,
                                      Some(avg_price), rf.fill.fee, None) ]

\* PaperExecutor::execute_limit_order
execute_limit_order(w, order_id, signal, intent, is_buy_order, book) ==
    LET side == intent_side(intent)
        sim  == IF IsSome(book)
                THEN IF is_buy_order
                     THEN simulate_limit_buy_fill(side_of_book(Unwrap(book), side),
                                                  signal.price, signal.quantity)
                     ELSE simulate_limit_sell_fill(side_of_book(Unwrap(book), side),
                                                   signal.price, signal.quantity)
                ELSE <<0, signal.price>>
        immediate_fill == sim[1]
        fill_price     == sim[2]
        remaining      == signal.quantity - immediate_fill
        rf == record_fill(w, order_id, signal.market_slug, side, is_buy_order,
                          fill_price, immediate_fill)
        w1        == IF immediate_fill > 0 THEN rf.w ELSE w
        total_fee == IF immediate_fill > 0 THEN rf.fill.fee ELSE 0
        status == IF remaining <= 0 THEN "Filled"
                  ELSE IF immediate_fill > 0 THEN "PartiallyFilled"
                  ELSE "Open"
        order  == [ order_id |-> order_id, market_slug |-> signal.market_slug,
                    intent |-> intent, price |-> signal.price,
                    quantity |-> signal.quantity,
                    filled_quantity |-> immediate_fill, status |-> status ]
        resting == [ order_id |-> order_id, market_slug |-> signal.market_slug,
                     intent |-> intent, price |-> signal.price,
                     total_quantity |-> signal.quantity,
                     filled_quantity |-> immediate_fill ]
        w2 == [ w1 EXCEPT !.orders = add_order(@, order) ]
        w3 == IF remaining > 0
              THEN [ w2 EXCEPT !.pe.resting_orders[order_id] = Some(resting) ]
              ELSE w2
    IN  [ w |-> w3,
          result |-> ExecResult(order_id, status, immediate_fill,
                                IF immediate_fill > 0 THEN Some(fill_price) ELSE None,
                                total_fee, None) ]

\* A cancel that drops every resting order, whatever its market.
cancel_all_markets(w, market_slug) ==
    [ w |-> [ w EXCEPT !.pe.resting_orders = [ i \in OrderIds |-> None ],
                       !.orders = [ i \in OrderIds |->
                                      IF IsSome(w.pe.resting_orders[i])
                                      THEN None ELSE w.orders[i] ] ],
      result |-> ExecResult(NoOrderId, "Cancelled", 0, None, 0, None) ]

\* The loop of cancel_all over the ids it collected.
RECURSIVE cancel_each(_, _)
cancel_each(ids, w) ==
    IF ids = {} THEN w
    ELSE LET id == CHOOSE i \in ids : TRUE
         IN  cancel_each(ids \ {id},
                 [ w EXCEPT !.pe.resting_orders[id] = None,
                            !.orders = remove_order(
                                           update_order(@, id, Some("Cancelled"), None),
                                           id) ])

\* PaperExecutor::cancel_all
cancel_all(w, market_slug) ==
    LET to_cancel == { i \in OrderIds :
                         /\ IsSome(w.pe.resting_orders[i])
                         /\ Unwrap(w.pe.resting_orders[i]).market_slug = market_slug }
    IN  [ w |-> cancel_each(to_cancel, w),
          result |-> ExecResult(NoOrderId, "Cancelled", 0, None, 0, None) ]

\* PaperExecutor::generate_order_id: the id, and the executor after.
generate_order_id(pex) ==
    [ id |-> pex.next_order_id, pe |-> [ pex EXCEPT !.next_order_id = @ + 1 ] ]

\* A position pre-check that lets every sell through.
no_position_to_sell_never(signal, held) == FALSE

\* The position pre-check of execute_signal: a sell of a side on which the
\* executor holds nothing.
no_position_to_sell(signal, held) == is_sell(signal) /\ held <= 0

\* PaperExecutor::execute_signal
execute_signal(w, signal) ==
    IF is_cancel(signal) THEN cancel_all(w, signal.market_slug)
    ELSE
      LET intent == Unwrap(to_intent(signal.action))
          cost   == signal.price * signal.quantity
          fee_estimate == MulFrac(cost, w.pe.fee_rate)
          pos_key == position_key(signal.market_slug, intent_side(intent))
          held == IF IsSome(w.pe.positions[pos_key])
                  THEN Unwrap(w.pe.positions[pos_key]).quantity ELSE 0
          gen      == generate_order_id(w.pe)
          order_id == gen.id
          w1       == [ w EXCEPT !.pe = gen.pe ]
          book == get_full(orderbook, signal.market_slug)
      IN  IF is_buy(signal) /\ signal.price > 0 /\ cost + fee_estimate > w.balance
          THEN [ w |-> w,
                 result |-> ExecResult(NoOrderId, "Rejected", 0, None, 0,
                                       Some("Insufficient balance")) ]
          ELSE IF no_position_to_sell(signal, held)
          THEN [ w |-> w,
                 result |-> ExecResult(NoOrderId, "Rejected", 0, None, 0,
                                       Some("No position to sell")) ]
          ELSE IF signal.urgency \in {"Critical", "High"}
          THEN execute_market_order(w1, order_id, signal, intent, is_buy(signal), book)
          ELSE execute_limit_order(w1, order_id, signal, intent, is_buy(signal), book)

\* RestingOrder::remaining
resting_remaining(order) == order.total_quantity - order.filled_quantity

\* A store update that marks the order PartiallyFilled and leaves its
\* filled quantity as it was.
partial_fill_update_status_only(ords, order_id, resting) ==
    update_order(ords, order_id, Some("PartiallyFilled"), None)

\* The store update of check_resting_orders for an order filled in part.
partial_fill_update(ords, order_id, resting) ==
    update_order(ords, order_id, Some("PartiallyFilled"),
                 Some(resting.filled_quantity))

\* One turn of the loop of check_resting_orders, for one collected order
\* id: the world after, and the fills it pushed (none or one).
check_order(w, order_id) ==
    LET entry == w.pe.resting_orders[order_id]
    IN  IF entry = None THEN [ w |-> w, fills |-> << >> ]
        ELSE
          LET order == Unwrap(entry)
              book  == get_full(orderbook, order.market_slug)
          IN  IF resting_remaining(order) <= 0
              THEN [ w |-> [ w EXCEPT !.pe.resting_orders[order_id] = None ],
                     fills |-> << >> ]
              ELSE IF book = None THEN [ w |-> w, fills |-> << >> ]
              ELSE
                LET is_buy_order == intent_is_buy(order.intent)
                    side      == intent_side(order.intent)
                    book_side == side_of_book(Unwrap(book), side)
                    sim == IF is_buy_order
                           THEN simulate_limit_buy_fill(book_side, order.price,
                                                        resting_remaining(order))
                           ELSE simulate_limit_sell_fill(book_side, order.price,
                                                         resting_remaining(order))
                    fill_qty   == sim[1]
                    fill_price == sim[2]
                    rf == record_fill(w, order_id, order.market_slug, side,
                                      is_buy_order, fill_price, fill_qty)
                    resting == [ order EXCEPT !.filled_quantity = @ + fill_qty ]
                IN  IF fill_qty > 0
                    THEN IF resting_remaining(resting) <= 0
                         THEN [ w |-> [ rf.w EXCEPT
                                          !.orders = update_order(@, order_id,
                                                         Some("Filled"),
                                                         Some(resting.total_quantity)),
                                          !.pe.resting_orders[order_id] = None ],
                                fills |-> <<rf.fill>> ]
                         ELSE [ w |-> [ rf.w EXCEPT
                                          !.orders = partial_fill_update(@, order_id,
                                                                         resting),
                                          !.pe.resting_orders[order_id] = Some(resting) ],
                                fills |-> <<rf.fill>> ]
                    ELSE [ w |-> w, fills |-> << >> ]

\* The for loop of check_resting_orders over the collected ids.  The
\* outcome r of one turn is drawn from a singleton set, which fixes its
\* value before the next turn reads r.w.
RECURSIVE check_each(_, _, _)
check_each(order_ids, w, fills) ==
    IF order_ids = << >> THEN [ w |-> w, fills |-> fills ]
    ELSE CHOOSE out \in
             { check_each(Tail(order_ids), r.w, fills \o r.fills)
               : r \in { check_order(w, Head(order_ids)) } } : TRUE

\* PaperExecutor::check_resting_orders, with order_ids the keys of the
\* resting orders in the order the HashMap yields them.
check_resting_orders(w, order_ids) == check_each(order_ids, w, << >>)

-----------------------------------------------------------------------------
(* PolymarketClient::request  (api/client.rs, api/errors.rs)               *)
(* A response is [kind |-> "status", status, retry_after, body] or         *)
(* [kind |-> "transport", timeout]; a body is the error code it carries,   *)
(* "ok" for a JSON document or "garbage" for text that is not JSON.        *)

\* ApiError::from_response
from_response(status_code, body) ==
    CASE body = "INSUFFICIENT_BALANCE" -> [ type |-> "InsufficientBalance" ]
      [] body = "MARKET_CLOSED"        -> [ type |-> "MarketClosed" ]
      [] body \in {"INVALID_PRICE", "INVALID_QUANTITY"} -> [ type |-> "InvalidOrder" ]
      [] body = "RATE_LIMITED"         -> [ type |-> "RateLimited", retry_after |-> 1 ]
      [] OTHER -> [ type |-> "Http", status_code |-> status_code,
                    error_code |-> IF body \in {"ok", "garbage"} THEN "UNKNOWN" ELSE body ]

\* 500 * 2u64.pow(attempt), in milliseconds
backoff_ms(attempt) == 500 * (2 ^ attempt)

\* A request about to enter its for loop.
RequestNew(max_retries) ==
    [ max_retries |-> max_retries, attempt |-> 0, last_error |-> None,
      pc |-> "loop", outcome |-> None, responses |-> << >>, slept |-> << >> ]

\* The return after the for loop.
request_exhausted(r) ==
    [ r EXCEPT !.pc = "done",
               !.outcome = Some([ ok |-> FALSE,
                                  error |-> IF IsSome(r.last_error)
                                            THEN Unwrap(r.last_error)
                                            ELSE [ type |-> "MaxRetriesExceeded",
                                                   attempts |-> r.max_retries,
                                                   last_error |-> "Unknown error" ] ]) ]

\* A `continue` that never leaves the loop.
request_continue_forever(r, sleep_ms, error) ==
    [ r EXCEPT !.slept = Append(@, sleep_ms),
               !.last_error = Some(error),
               !.attempt = @ + 1 ]

\* `continue`: the next turn of `for attempt in 0..self.max_retries`, or
\* the return after the loop when there is none.
request_continue(r, sleep_ms, error) ==
    LET r1 == [ r EXCEPT !.slept = Append(@, sleep_ms),
                         !.last_error = Some(error),
                         !.attempt = @ + 1 ]
    IN  IF r1.attempt < r1.max_retries THEN r1 ELSE request_exhausted(r1)

\* One turn of the loop of request: the attempt is sent and answered by
\* response.
request_attempt(r, response) ==
    LET r1 == [ r EXCEPT !.responses = Append(@, response) ]
        return(result) == [ r1 EXCEPT !.pc = "done", !.outcome = Some(result) ]
    IN  IF response.kind = "status"
        THEN IF response.status \in 200..299
             THEN IF response.body = "ok"
                  THEN return([ ok |-> TRUE, error |-> None ])
                  ELSE return([ ok |-> FALSE, error |-> [ type |-> "Deserialization" ] ])
             ELSE IF response.status = 429
             THEN LET retry_after == IF IsSome(response.retry_after)
                                     THEN Unwrap(response.retry_after) ELSE 1
                  IN  request_continue(r1, retry_after * 1000,
                                       [ type |-> "RateLimited",
                                         retry_after |-> retry_after ])
             ELSE IF response.status >= 500
             THEN request_continue(r1, backoff_ms(r.attempt),
                                   [ type |-> "Http", status_code |-> response.status,
                                     error_code |-> "SERVER_ERROR" ])
             ELSE return([ ok |-> FALSE,
                           error |-> from_response(response.status, response.body) ])
        ELSE request_continue(r1, backoff_ms(r.attempt),
                              IF response.timeout THEN [ type |-> "Timeout" ]
                              ELSE [ type |-> "Network" ])

\* PolymarketClient::request up to its first await: with max_retries = 0
\* the loop has no turn and the function returns at once.
request(max_retries) ==
    IF max_retries > 0 THEN RequestNew(max_retries)
    ELSE request_exhausted(RequestNew(max_retries))

-----------------------------------------------------------------------------
(* MarketFeed::poll_cycle  (data/market_feed.rs)                           *)

\* The slugs of a cycle: orderbook.tracked_markets() and, after them, the
\* markets of the state store.
poll_slugs(tracker, mkts) ==
    { s \in DOMAIN tracker.books : IsSome(tracker.books[s]) }
        \cup { s \in DOMAIN mkts : IsSome(mkts[s]) }

\* One collected result: Some(book) is Ok(book), None is Err; an Err is
\* logged and changes nothing.
poll_result(w, slug, result) ==
    IF IsSome(result)
    THEN LET tracker == tracker_update(w.orderbook, slug, Unwrap(result))
             new_top == get_top(tracker, slug)
         IN  [ orderbook |-> tracker,
               markets   |-> IF IsSome(new_top)
                             THEN [ w.markets EXCEPT ![slug] =
                                      Some([ yes_bid |-> Unwrap(new_top).yes_best_bid,
                                             yes_ask |-> Unwrap(new_top).yes_best_ask,
                                             no_bid  |-> Unwrap(new_top).no_best_bid,
                                             no_ask  |-> Unwrap(new_top).no_best_ask ]) ]
                             ELSE w.markets ]
    ELSE w

RECURSIVE poll_each(_, _, _)
poll_each(slugs, w, results) ==
    IF slugs = {} THEN w
    ELSE LET slug == CHOOSE s \in slugs : TRUE
         IN  poll_each(slugs \ {slug}, poll_result(w, slug, results[slug]), results)

\* MarketFeed::poll_cycle; results maps each slug of the cycle to what
\* get_market_sides returned for it.
poll_cycle(w, results) == poll_each(DOMAIN results, w, results)

-----------------------------------------------------------------------------
(* MarketMakerStrategy  (strategies/market_maker.rs)                       *)
(* Prices and dollar amounts are Decimals carried in millionths of a       *)
(* dollar; a time is a count of milliseconds.  A strategy value is the     *)
(* struct {config, quotes, stop_loss_cooldowns, enabled}; a method that    *)
(* takes &mut self returns the strategy after the call with its signals.   *)

\* Decimal::ONE on the grid of the market maker.
Dollar == 1000000

\* MarketMakerConfig::default
MarketMakerConfigDefault ==
    [ spread                      |-> (2 * Dollar) \div 100,
      order_size                  |-> Dollar,
      max_inventory               |-> 50 * Dollar,
      refresh_interval_secs       |-> 5,
      min_spread                  |-> Dollar \div 100,
      max_spread                  |-> (10 * Dollar) \div 100,
      price_tolerance             |-> (5 * Dollar) \div 1000,
      enabled_markets             |-> {},
      inventory_skew_factor       |-> <<1, 2>>,
      min_spread_pct              |-> <<1, 1000>>,
      maker_only                  |-> TRUE,
      stop_loss_pct               |-> 15,
      aggressive_stop_loss_pct    |-> 10,
      max_underwater_hold_seconds |-> 600,
      min_mid_price               |-> (5 * Dollar) \div 100,
      max_mid_price               |-> (95 * Dollar) \div 100,
      stop_loss_cooldown_secs     |-> 60,
      max_contracts_per_order     |-> 50 ]

\* MarketMakerStrategy::new
MarketMakerStrategyNew(config) ==
    [ config              |-> config,
      quotes              |-> [ s \in Slugs |-> None ],
      stop_loss_cooldowns |-> [ s \in Slugs |-> None ],
      enabled             |-> TRUE ]

\* clamp_price: into [0.01, 0.99]
clamp_price(price) == Min(Max(price, Dollar \div 100), (99 * Dollar) \div 100)

\* MarketState::yes_mid_price
yes_mid_price(market) ==
    IF IsSome(market.yes_bid) /\ IsSome(market.yes_ask)
    THEN Some((Unwrap(market.yes_bid) + Unwrap(market.yes_ask)) \div 2)
    ELSE None

\* MarketState::has_valid_prices
has_valid_prices(market) ==
    /\ IsSome(market.yes_bid) /\ IsSome(market.yes_ask)
    /\ Unwrap(market.yes_bid) > 0
    /\ Unwrap(market.yes_ask) > 0
    /\ Unwrap(market.yes_bid) < Unwrap(market.yes_ask)

\* chrono's Duration::num_seconds of a span of milliseconds: whole seconds,
\* rounded towards zero.
num_seconds(ms) == IF ms >= 0 THEN ms \div 1000 ELSE -((-ms) \div 1000)

\* A cooldown that ends one second early.
cooldown_running_short(elapsed, stop_loss_cooldown_secs) ==
    elapsed + 1 < stop_loss_cooldown_secs

\* elapsed < self.config.stop_loss_cooldown_secs
cooldown_running(elapsed, stop_loss_cooldown_secs) ==
    elapsed < stop_loss_cooldown_secs

\* MarketMakerStrategy::is_in_cooldown
is_in_cooldown(strategy, slug, now) ==
    IF IsSome(strategy.stop_loss_cooldowns[slug])
    THEN cooldown_running(num_seconds(now - Unwrap(strategy.stop_loss_cooldowns[slug])),
                          strategy.config.stop_loss_cooldown_secs)
    ELSE FALSE

\* MarketMakerStrategy::is_market_enabled, for patterns without a trailing
\* '*': an empty list enables every market.
is_market_enabled(strategy, slug) ==
    \/ strategy.config.enabled_markets = {}
    \/ slug \in strategy.config.enabled_markets

\* MarketMakerStrategy::market_spread_pct, as a fraction
market_spread_pct(market) ==
    IF ~(IsSome(market.yes_bid) /\ IsSome(market.yes_ask)) THEN None
    ELSE LET bid == Unwrap(market.yes_bid)
             ask == Unwrap(market.yes_ask)
             mid == Rat(bid + ask, 2)
         IN  IF bid <= 0 \/ ask <= 0 \/ bid >= ask THEN None
             ELSE IF mid[1] <= 0 THEN None
             ELSE Some(RDiv(Rat(ask - bid, 1), mid))

\* MarketMakerStrategy::should_refresh
should_refresh(strategy, market, quote, now) ==
    \/ ~IsSome(quote.bid_price) /\ ~IsSome(quote.ask_price)
    \/ now - quote.last_refresh >= 1000 * strategy.config.refresh_interval_secs
    \/ /\ IsSome(yes_mid_price(market)) /\ IsSome(quote.last_mid_price)
       /\ Abs(Unwrap(yes_mid_price(market)) - Unwrap(quote.last_mid_price))
              >= strategy.config.price_tolerance

\* MarketMakerStrategy::get_or_create_quote
get_or_create_quote(strategy, slug, now) ==
    IF IsSome(strategy.quotes[slug]) THEN strategy
    ELSE [ strategy EXCEPT !.quotes[slug] =
               Some([ bid_price |-> None, ask_price |-> None,
                      last_refresh |-> now, last_mid_price |-> None ]) ]

\* The inventory skew of calculate_quotes:
\* min(pos_value / max_inventory, 2) * inventory_skew_factor * half_spread.
inventory_skew(strategy, position, half_spread) ==
    LET inventory_ratio == RMin(Rat(cost_basis(position), strategy.config.max_inventory),
                                <<2, 1>>)
    IN  RFloor(RMul(RMul(inventory_ratio, strategy.config.inventory_skew_factor),
                    <<half_spread, 1>>))

\* A maker-only step that leaves the quotes where the spread put them.
maker_only_bounds_none(bid, ask, market) == <<bid, ask>>

\* The maker-only tightening of calculate_quotes: the bid no higher than
\* the market's bid, the ask no lower than its ask, both clamped.
maker_only_bounds(bid, ask, market) ==
    << clamp_price(IF IsSome(market.yes_bid) THEN Min(bid, Unwrap(market.yes_bid)) ELSE bid),
       clamp_price(IF IsSome(market.yes_ask) THEN Max(ask, Unwrap(market.yes_ask)) ELSE ask) >>

\* MarketMakerStrategy::calculate_quotes: Some(<<bid, ask>>) or None.  The
\* pair after each step is drawn from a singleton set, which fixes its
\* value before the next step reads it.
calculate_quotes(strategy, market, position) ==
    IF ~IsSome(yes_mid_price(market)) THEN None
    ELSE
      LET mid         == Unwrap(yes_mid_price(market))
          half_spread == strategy.config.spread \div 2
          skewed == IsSome(position) /\ Unwrap(position).quantity > 0
                       /\ strategy.config.max_inventory > 0
          skew   == IF skewed
                    THEN inventory_skew(strategy, Unwrap(position), half_spread)
                    ELSE 0
          shift  == IF ~skewed THEN 0
                    ELSE IF Unwrap(position).side = "YES" THEN -skew ELSE skew
      IN  CHOOSE out \in
            { IF q3[1] >= q3[2] THEN None ELSE Some(q3)
              : q3 \in
                { IF /\ strategy.config.maker_only
                     /\ q2[1] >= q2[2]
                     /\ IsSome(market.yes_bid) /\ IsSome(market.yes_ask)
                  THEN <<clamp_price(Unwrap(market.yes_bid)),
                         clamp_price(Unwrap(market.yes_ask))>>
                  ELSE q2
                  : q2 \in
                    { IF strategy.config.maker_only
                      THEN maker_only_bounds(q1[1], q1[2], market)
                      ELSE q1
                      : q1 \in
                        { IF q0[1] >= q0[2]
                          THEN <<clamp_price(mid - half_spread),
                                 clamp_price(mid + half_spread)>>
                          ELSE q0
                          : q0 \in { <<clamp_price(mid - half_spread + s),
                                       clamp_price(mid + half_spread + s)>>
                                     : s \in { shift } } } } } } : TRUE

\* MarketMakerStrategy::calculate_quantity
calculate_quantity(strategy, price) ==
    IF price <= 0 THEN 0
    ELSE LET target_qty == strategy.config.order_size \div price
             min_qty_for_notional == (Dollar + price - 1) \div price
         IN  Min(Max(Max(target_qty, min_qty_for_notional), 1),
                 strategy.config.max_contracts_per_order)

\* A signal of the market maker.
MakerSignal(slug, action, price, quantity, urgency, confidence) ==
    [ market_slug |-> slug, action |-> action, price |-> price,
      quantity |-> quantity, urgency |-> urgency, confidence |-> confidence,
      true_probability |-> None ]

\* A refresh that cancels after it has quoted.
quote_signals_cancel_last(cancel, bid, ask) == bid \o ask \o cancel

\* The pushes of generate_quote_signals, in their order: the CancelAll,
\* the bid, the ask.
quote_signals(cancel, bid, ask) == cancel \o bid \o ask

\* The emission of generate_quote_signals for the quotes it calculated.
emit_quotes(strategy, market, position, now, bid_price, ask_price) ==
    LET slug   == market.market_slug
        at_max == /\ IsSome(position)
                  /\ cost_basis(Unwrap(position)) >= strategy.config.max_inventory
        has_active == /\ IsSome(strategy.quotes[slug])
                      /\ \/ IsSome(Unwrap(strategy.quotes[slug]).bid_price)
                         \/ IsSome(Unwrap(strategy.quotes[slug]).ask_price)
        cancel == IF has_active
                  THEN << MakerSignal(slug, "CancelAll", 0, 0, "Low", 100) >>
                  ELSE << >>
    IN  CHOOSE out \in
          { [ mm |-> [ strategy EXCEPT !.quotes[slug] =
                         Some([ bid_price |-> IF final_bid_qty > 0
                                              THEN Some(bid_price) ELSE None,
                                ask_price |-> IF final_ask_qty > 0
                                              THEN Some(ask_price) ELSE None,
                                last_refresh   |-> now,
                                last_mid_price |-> yes_mid_price(market) ]) ],
              signals |-> quote_signals(
                  cancel,
                  IF final_bid_qty > 0
                  THEN << MakerSignal(slug, "BuyYes", bid_price, final_bid_qty,
                                      "Low", 80) >>
                  ELSE << >>,
                  IF final_ask_qty > 0
                  THEN << MakerSignal(slug, "SellYes", ask_price, final_ask_qty,
                                      "Low", 80) >>
                  ELSE << >>) ]
            : <<final_bid_qty, final_ask_qty>> \in
                { << IF at_max /\ Unwrap(position).side = "YES" THEN 0
                     ELSE calculate_quantity(strategy, bid_price),
                     IF at_max /\ Unwrap(position).side = "NO" THEN 0
                     ELSE calculate_quantity(strategy, ask_price) >> } } : TRUE

\* MarketMakerStrategy::generate_quote_signals
generate_quote_signals(strategy, market, position, now) ==
    CHOOSE out \in
      { IF ~IsSome(spread_pct) THEN [ mm |-> strategy, signals |-> << >> ]
        ELSE IF ~RLeq(strategy.config.min_spread_pct, Unwrap(spread_pct))
        THEN [ mm |-> strategy, signals |-> << >> ]
        ELSE IF ~IsSome(prices) THEN [ mm |-> strategy, signals |-> << >> ]
        ELSE IF Unwrap(prices)[2] - Unwrap(prices)[1] < (3 * Dollar) \div 1000
        THEN [ mm |-> strategy, signals |-> << >> ]
        ELSE emit_quotes(strategy, market, position, now,
                         Unwrap(prices)[1], Unwrap(prices)[2])
        : <<spread_pct, prices>> \in
            { << market_spread_pct(market),
                 calculate_quotes(strategy, market, position) >> } } : TRUE

\* MarketMakerStrategy::on_market_update
on_market_update(strategy, market, position, now) ==
    LET slug == market.market_slug
        mid  == yes_mid_price(market)
        skip == [ mm |-> strategy, signals |-> << >> ]
    IN  IF ~strategy.enabled THEN skip
        ELSE IF ~is_market_enabled(strategy, slug) THEN skip
        ELSE IF ~has_valid_prices(market) THEN skip
        ELSE IF /\ IsSome(mid)
                /\ \/ Unwrap(mid) < strategy.config.min_mid_price
                   \/ Unwrap(mid) > strategy.config.max_mid_price
             THEN skip
        ELSE IF is_in_cooldown(strategy, slug, now) THEN skip
        ELSE CHOOSE out \in
               { IF should_refresh(created, market, Unwrap(created.quotes[slug]), now)
                 THEN generate_quote_signals(created, market, position, now)
                 ELSE [ mm |-> created, signals |-> << >> ]
                 : created \in { get_or_create_quote(strategy, slug, now) } } : TRUE

\* MarketMakerStrategy::check_stop_loss.  pnl_pct <= -p/100 is compared as
\* 100 * (effective_close_price - avg_price) <= -p * avg_price, which is
\* the same for the positive avg_price the function requires.
check_stop_loss(strategy, position, market, now) ==
    LET exit_price == IF position.side = "YES" THEN market.yes_bid ELSE market.yes_ask
        skip == [ mm |-> strategy, signals |-> << >> ]
    IN  IF ~IsSome(exit_price) \/ position.avg_price <= 0 THEN skip
        ELSE
          LET effective_close_price ==
                  IF position.side = "YES" THEN Unwrap(exit_price)
                  ELSE Dollar - Unwrap(exit_price)
              pnl == effective_close_price - position.avg_price
              age_seconds == num_seconds(now - position.created_at)
              stop_loss_trigger ==
                  100 * pnl <= -(strategy.config.aggressive_stop_loss_pct * position.avg_price)
              hard_stop_trigger ==
                  100 * pnl <= -(strategy.config.stop_loss_pct * position.avg_price)
              time_exit_trigger ==
                  /\ age_seconds >= strategy.config.max_underwater_hold_seconds
                  /\ pnl < 0
              action == IF position.side = "YES" THEN "SellYes" ELSE "BuyYes"
          IN  IF stop_loss_trigger \/ hard_stop_trigger \/ time_exit_trigger
              THEN [ mm |-> [ strategy EXCEPT
                                !.stop_loss_cooldowns[position.market_slug] = Some(now) ],
                     signals |-> << MakerSignal(position.market_slug, action,
                                                clamp_price(Unwrap(exit_price)),
                                                position.quantity, "High", 95) >> ]
              ELSE skip

-----------------------------------------------------------------------------
(* StrategyEngine::on_market_update and the dispatch of main               *)

\* StrategyEngine::on_market_update with a market maker and no other
\* strategy: the maker's signals, then its stop-loss signals when the
\* store holds a position on the market, through filter_through_risk.
engine_on_market_update(strategy, rmv, market, position, now) ==
    CHOOSE out \in
        { [ mm |-> b.mm, signals |-> a.signals, stop_signals |-> b.signals,
            output |-> filter_through_risk(a.signals \o b.signals, rmv) ]
          : <<a, b>> \in
              { <<x, IF IsSome(position)
                     THEN check_stop_loss(x.mm, Unwrap(position), market, now)
                     ELSE [ mm |-> x.mm, signals |-> << >> ]>>
                : x \in { on_market_update(strategy, market, position, now) } } } : TRUE

\* for signal in &output.approved_signals { execute_signal_dispatch(..) }
\* in paper mode: the world after the loop, and each signal with its result.
RECURSIVE dispatch_each(_, _, _)
dispatch_each(signals, w, executions) ==
    IF signals = << >> THEN [ w |-> w, executions |-> executions ]
    ELSE CHOOSE out \in
             { dispatch_each(Tail(signals), r.w,
                             Append(executions, [ signal |-> Head(signals),
                                                  result |-> r.result ]))
               : r \in { execute_signal(w, Head(signals)) } } : TRUE

-----------------------------------------------------------------------------
(* Specification Spec: the state store written by its callers, and the     *)
(* risk pipeline reading it.  Money is counted in cents.                   *)

\* RiskConfig of the run: $200 per market, $250 portfolio, 80% of equity,
\* $220 per correlation group, one position, $100 daily loss, 10% drawdown,
\* 5% drawdown gate for new buys, $1 minimum trade, quarter Kelly, 2% edge.
Config ==
    [ kelly_fraction             |-> 25,
      min_edge                   |-> 2,
      max_position_per_market    |-> 20000,
      max_portfolio_exposure     |-> 25000,
      max_portfolio_exposure_pct |-> 80,
      max_correlated_exposure    |-> 22000,
      max_positions              |-> 1,
      max_daily_loss             |-> 10000,
      max_drawdown_pct           |-> 10,
      max_total_pnl_drawdown_pct_for_new_buys |-> 5,
      min_trade_size             |-> 100 ]

InitialBalance == 100000

\* Balances the executor or the reconciler writes.
Balances == {100000, 95000, 90000, 40}

\* Positions written to the store: (slug, side, quantity, avg_price);
\* a quantity of 0 removes the key.
PositionWrites ==
    { <<"mkt-a", "YES", 200, 50>>, <<"mkt-a", "YES", 0, 50>> }

\* Market rows written by the feed: (slug, row).
MarketWrites ==
    { <<"mkt-a", [ yes_bid |-> Some(40), yes_ask |-> Some(44),
                   no_bid  |-> Some(56), no_ask  |-> Some(60) ]>> }

MkSignal(slug, action, price, quantity, urgency, tp) ==
    [ market_slug |-> slug, action |-> action, price |-> price,
      quantity |-> quantity, urgency |-> urgency, confidence |-> 100,
      true_probability |-> tp ]

\* Signals handed to evaluate_signal.
EvalSignals ==
    { MkSignal(s, "BuyYes", 50, q, "Medium", None) :
          s \in Slugs, q \in {1, 300, 400, 500} }
      \cup { MkSignal("mkt-b", "BuyYes", 50, 300, "Medium", Some(p)) : p \in {51, 60} }
      \cup { MkSignal("mkt-a", "BuyNo", 50, 300, "Medium", None) }
      \cup { MkSignal(s, "SellYes", 50, q, "Medium", None) :
                 s \in Slugs, q \in {0, 1, 300} }
      \cup { MkSignal("mkt-a", "SellNo", 50, 300, "Medium", None) }
      \cup { MkSignal(s, "CancelAll", 0, 0, "High", None) : s \in Slugs }

\* Signals the strategies put in one batch.
BatchSignals ==
    { MkSignal("mkt-b", "BuyYes", 50, 300, "Low", None),
      MkSignal("mkt-b", "BuyYes", 50, 300, "High", None),
      MkSignal("mkt-a", "SellYes", 50, 300, "Critical", None),
      MkSignal("mkt-a", "CancelAll", 0, 0, "Medium", None),
      MkSignal("mkt-a", "SellNo", 50, 300, "High", None) }

MaxBatch == 2

Batches == UNION { [1..n -> BatchSignals] : n \in 0..MaxBatch }

NoCall == [ op |-> "none" ]

\* StateManager::new
StateInit ==
    /\ balance   = InitialBalance
    /\ markets   = [ s \in Slugs |-> None ]
    /\ positions = [ k \in PosKeys |-> None ]
    /\ orders    = [ i \in OrderIds |-> None ]

\* RiskManager::new on the fresh store
RiskInit ==
    /\ rm        = RiskManagerNew(Config, InitialBalance,
                                  [ k \in PosKeys |-> None ], [ s \in Slugs |-> None ])
    /\ risk_call = NoCall

\* The stand-alone breaker and the paper executor take no step in Spec.
BreakerIdle ==
    /\ cb      = CircuitBreakerNew(0, 0)
    /\ cb_call = NoCall

PaperIdle ==
    /\ orderbook = OrderBookTrackerNew
    /\ pe        = PaperExecutorNew(InitialBalance)
    /\ pe_call   = NoCall

\* No tracker call, request or feed cycle in progress.
\* No task of main and no strategy is modelled.
StratIdle ==
    /\ sys = NoCall
    /\ mm  = NoCall
    /\ la  = NoCall
    /\ le  = NoCall

NetIdle ==
    /\ ob_writer = None
    /\ ob_call   = NoCall
    /\ req       = NoCall
    /\ feed      = NoCall
    /\ StratIdle

Init == StateInit /\ RiskInit /\ BreakerIdle /\ PaperIdle /\ NetIdle

\* StateManager::update_balance
UpdateBalance ==
    \E b \in Balances :
        /\ balance' = b
        /\ risk_call' = NoCall
        /\ UNCHANGED <<netVars, markets, positions, orders, rm, breakerVars, paperVars>>

\* StateManager::update_position
UpdatePosition ==
    \E w \in PositionWrites :
        /\ positions' = update_position(positions, w[1], w[2], w[3], w[4])
        /\ risk_call' = NoCall
        /\ UNCHANGED <<netVars, balance, markets, orders, rm, breakerVars, paperVars>>

\* StateManager::update_market
UpdateMarket ==
    \E w \in MarketWrites :
        /\ markets' = [ markets EXCEPT ![w[1]] = Some(w[2]) ]
        /\ risk_call' = NoCall
        /\ UNCHANGED <<netVars, balance, positions, orders, rm, breakerVars, paperVars>>

\* RiskManager::on_state_update
OnStateUpdate ==
    /\ rm' = on_state_update(rm)
    /\ risk_call' = [ op |-> "on_state_update" ]
    /\ UNCHANGED <<netVars, stateVars, breakerVars, paperVars>>

\* RiskManager::reset_starting_equity
ResetStartingEquity ==
    /\ rm' = reset_starting_equity(rm)
    /\ risk_call' = [ op |-> "reset_starting_equity" ]
    /\ UNCHANGED <<netVars, stateVars, breakerVars, paperVars>>

\* RiskManager::set_correlation_group
SetCorrelationGroup ==
    /\ rm' = set_correlation_group(rm, "corr", Slugs)
    /\ risk_call' = [ op |-> "set_correlation_group" ]
    /\ UNCHANGED <<netVars, stateVars, breakerVars, paperVars>>

\* RiskManager::evaluate_signal
EvaluateSignal ==
    \E signal \in EvalSignals :
        \E r \in { evaluate_signal(rm, signal) } :
            /\ rm' = r.rm
            /\ risk_call' = [ op |-> "evaluate_signal", signal |-> signal,
                              decision |-> r.decision ]
            /\ UNCHANGED <<netVars, stateVars, breakerVars, paperVars>>

\* StrategyEngine::filter_through_risk on a batch of strategy signals
FilterThroughRisk ==
    \E signals \in Batches :
        \E r \in { filter_through_risk(signals, rm) } :
            /\ rm' = r.rm
            /\ risk_call' = [ op |-> "filter_through_risk", signals |-> signals,
                              output |-> [ approved_signals |-> r.approved_signals,
                                           rejected_count   |-> r.rejected_count ] ]
            /\ UNCHANGED <<netVars, stateVars, breakerVars, paperVars>>

Next ==
    \/ UpdateBalance
    \/ UpdatePosition
    \/ UpdateMarket
    \/ OnStateUpdate
    \/ ResetStartingEquity
    \/ SetCorrelationGroup
    \/ EvaluateSignal
    \/ FilterThroughRisk

Spec == Init /\ [][Next]_vars

-----------------------------------------------------------------------------
(* Specification BreakerSpec: a stand-alone CircuitBreaker driven through  *)
(* its public operations.  Money is counted in cents.                      *)

\* (daily_loss_limit, max_drawdown_pct) of the breakers under study:
\* $100 / 10%, $100 / 20%, $500 / 10%.
BreakerConfigs == { <<10000, 10>>, <<10000, 20>>, <<50000, 10>> }

\* Equities handed to initialize and reset.
StartEquities == {0, 100000, 110000}

\* Equities handed to update: around the $900 daily-loss threshold of a
\* $1000 start, around the 10% drawdown of the peaks, and recoveries.
ObservedEquities ==
    {0, 80000, 88000, 90000, 90001, 99000, 99001, 100000, 110000, 120000}

StopReasons == {"Manual stop"}

BreakerInit ==
    /\ \E c \in BreakerConfigs : cb = CircuitBreakerNew(c[1], c[2])
    /\ cb_call = NoCall

\* The state store and the risk pipeline take no step in BreakerSpec.
BInit == StateInit /\ RiskInit /\ BreakerInit /\ PaperIdle /\ NetIdle

CbInitialize ==
    \E e \in StartEquities :
        /\ cb' = initialize(cb, e)
        /\ cb_call' = [ op |-> "initialize", arg |-> e, before |-> cb ]
        /\ UNCHANGED <<netVars, stateVars, riskVars, paperVars>>

CbUpdate ==
    \E e \in ObservedEquities :
        /\ cb' = update(cb, e)
        /\ cb_call' = [ op |-> "update", arg |-> e, before |-> cb ]
        /\ UNCHANGED <<netVars, stateVars, riskVars, paperVars>>

CbEmergencyStop ==
    \E r \in StopReasons :
        /\ cb' = emergency_stop(cb, r)
        /\ cb_call' = [ op |-> "emergency_stop", arg |-> r, before |-> cb ]
        /\ UNCHANGED <<netVars, stateVars, riskVars, paperVars>>

CbReset ==
    \E e \in StartEquities :
        /\ cb' = reset(cb, e)
        /\ cb_call' = [ op |-> "reset", arg |-> e, before |-> cb ]
        /\ UNCHANGED <<netVars, stateVars, riskVars, paperVars>>

BNext ==
    \/ CbInitialize
    \/ CbUpdate
    \/ CbEmergencyStop
    \/ CbReset

BreakerSpec == BInit /\ [][BNext]_vars

-----------------------------------------------------------------------------
(* Circuit breaker claims (BreakerSpec)                                    *)

\* C2.  Tripped is absorbing under update: an update made on a Tripped
\* breaker (tripped by daily loss, drawdown or emergency_stop) leaves it
\* Tripped whatever the equity; a step that takes a Tripped breaker to Armed
\* is an initialize or a reset; and after reset(e) the breaker is Armed with
\* starting_equity = peak_equity = e.
C2_TrippedAbsorbing ==
    /\ (cb_call.op = "update" /\ cb_call.before.tripped) => cb.tripped
    /\ (cb_call.op # "none" /\ cb_call.before.tripped /\ ~cb.tripped)
           => cb_call.op \in {"initialize", "reset"}
    /\ cb_call.op = "reset"
           => /\ ~cb.tripped
              /\ cb.starting_equity = cb_call.arg
              /\ cb.peak_equity = cb_call.arg

\* C2 witness: a breaker tripped by the daily loss is updated with an equity
\* that is back above both thresholds, and is still Tripped.
C2_Witness ==
    /\ cb_call.op = "update"
    /\ cb_call.before.tripped
    /\ cb_call.before.trip_reason = Some("Daily loss limit exceeded")
    /\ cb_call.arg >= cb_call.before.peak_equity
    /\ cb_call.arg > cb_call.before.starting_equity
    /\ cb.tripped

\* The trip conditions as the specification states them, on the peak that
\* includes the observed equity.
TripCondition(b, e) ==
    LET peak == Max(b.peak_equity, e)
    IN  \/ b.starting_equity - e >= b.daily_loss_limit
        \/ /\ peak > 0
           /\ (peak - e) * PctScale >= b.max_drawdown_pct * peak

\* C3.  From Armed, update(e) trips the breaker exactly when
\* starting_equity - e >= daily_loss_limit or peak_equity > 0 and
\* (peak_equity - e) / peak_equity >= max_drawdown_pct, both inclusive, and
\* otherwise leaves it Armed; with a $100 limit and a $1000 start, $900.01
\* leaves it Armed and $900.00 trips it.
C3_TripExactlyAtThresholds ==
    (cb_call.op = "update" /\ ~cb_call.before.tripped)
        => /\ cb.tripped <=> TripCondition(cb_call.before, cb_call.arg)
           /\ (/\ cb_call.before.daily_loss_limit = 10000
               /\ cb_call.before.starting_equity = 100000
               /\ cb_call.before.peak_equity = 100000
               /\ cb_call.before.max_drawdown_pct = 20)
                  => /\ cb_call.arg = 90001 => ~cb.tripped
                     /\ cb_call.arg = 90000 => cb.tripped

\* C3 witness: an Armed breaker with a $1000 start and a $100 limit is
\* updated with exactly $900.00 and trips on the daily loss.
C3_Witness ==
    /\ cb_call.op = "update"
    /\ ~cb_call.before.tripped
    /\ cb_call.before.starting_equity = 100000
    /\ cb_call.before.daily_loss_limit = 10000
    /\ cb_call.before.max_drawdown_pct = 20
    /\ cb_call.arg = 90000
    /\ cb.tripped
    /\ cb.trip_reason = Some("Daily loss limit exceeded")

-----------------------------------------------------------------------------
(* Risk pipeline claims (Spec)                                             *)

\* The latest call was evaluate_signal / filter_through_risk.
Evaluated == risk_call.op = "evaluate_signal"

Filtered == risk_call.op = "filter_through_risk"

\* The signal evaluate_signal approved (decision.signal).
ApprovedSignal == Unwrap(risk_call.decision.signal)

IsExit(signal) == is_sell(signal) \/ is_cancel(signal)

\* C1.  While the breaker of the risk manager is Tripped, evaluate_signal
\* (called directly or by the engine's filter) approves only sells and
\* CancelAlls, so every buy is rejected; and the breaker stays Tripped over
\* every step (evaluations, equity changes) other than reset_starting_equity.
C1_TrippedApprovesOnlyExits ==
    [][ /\ (rm.circuit_breaker.tripped /\ risk_call'.op # "reset_starting_equity")
               => rm'.circuit_breaker.tripped
        /\ (risk_call'.op = "evaluate_signal" /\ rm'.circuit_breaker.tripped
                /\ risk_call'.decision.approved)
               => IsExit(risk_call'.signal)
        /\ (risk_call'.op = "filter_through_risk" /\ rm'.circuit_breaker.tripped)
               => \A i \in DOMAIN risk_call'.output.approved_signals :
                      IsExit(risk_call'.output.approved_signals[i])
      ]_vars

\* C1 witness: with the breaker Tripped a sell is approved as an exit.
C1_Witness ==
    /\ Evaluated
    /\ rm.circuit_breaker.tripped
    /\ is_sell(risk_call.signal)
    /\ risk_call.decision.approved
    /\ risk_call.decision.reason = "Approved: circuit breaker allows exits"

\* C4 as stated: every approved signal has price * quantity >= min_trade_size.
C4_EveryApprovedMeetsMinTradeSize ==
    (Evaluated /\ risk_call.decision.approved)
        => notional(ApprovedSignal) >= rm.config.min_trade_size

\* C4, amended.  Every approved signal other than a CancelAll or a sell
\* approved while the circuit breaker is tripped has
\* price * quantity >= min_trade_size.
C4_ApprovedTradeMeetsMinTradeSize ==
    /\ (Evaluated /\ risk_call.decision.approved
            /\ ~is_cancel(risk_call.signal) /\ ~rm.circuit_breaker.tripped)
           => notional(ApprovedSignal) >= rm.config.min_trade_size
    /\ (Filtered /\ ~rm.circuit_breaker.tripped)
           => \A i \in DOMAIN risk_call.output.approved_signals :
                  LET a == risk_call.output.approved_signals[i]
                  IN  ~is_cancel(a) => notional(a) >= rm.config.min_trade_size

\* C4 witness: a buy is approved with a reduced quantity while the breaker
\* is Armed.
C4_Witness ==
    /\ Evaluated
    /\ ~rm.circuit_breaker.tripped
    /\ is_buy(risk_call.signal)
    /\ risk_call.decision.approved
    /\ ApprovedSignal.quantity < risk_call.signal.quantity

\* C5 as stated: a buy on a slug in which no position is held is rejected
\* whenever position_count >= max_positions, whatever its notional.
C5_NewSlugRejectedAtMaxPositions ==
    (/\ Evaluated
     /\ is_buy(risk_call.signal)
     /\ get_position(positions, risk_call.signal.market_slug) = None
     /\ position_count(positions) >= rm.config.max_positions)
        => ~risk_call.decision.approved

\* C6 as stated: for every approved buy, total_exposure + price * quantity
\* stays within the absolute portfolio limit.
C6_ApprovedBuyWithinPortfolioLimit ==
    (Evaluated /\ is_buy(risk_call.signal) /\ risk_call.decision.approved)
        => total_exposure(positions, markets) + notional(ApprovedSignal)
               <= rm.config.max_portfolio_exposure

\* C7.  For every approved buy on slug s, market_exposure(s) + price *
\* quantity <= max_position_per_market: a buy over the limit is resized to
\* the headroom or rejected (limit $200, buy 500 @ 0.50: approved
\* quantity <= 400).
C7_ApprovedBuyWithinMarketLimit ==
    /\ (Evaluated /\ is_buy(risk_call.signal) /\ risk_call.decision.approved)
           => /\ market_exposure(positions, risk_call.signal.market_slug)
                     + notional(ApprovedSignal)
                     <= rm.config.max_position_per_market
              /\ (/\ rm.config.max_position_per_market = 20000
                  /\ risk_call.signal.price = 50
                  /\ risk_call.signal.quantity = 500)
                     => ApprovedSignal.quantity <= 400
    /\ Filtered
           => \A i \in DOMAIN risk_call.output.approved_signals :
                  LET a == risk_call.output.approved_signals[i]
                  IN  is_buy(a)
                          => market_exposure(positions, a.market_slug) + notional(a)
                                 <= rm.config.max_position_per_market

\* C7 witness: with no exposure in the market, a buy of 500 @ 0.50 against a
\* $200 limit is approved for exactly 400.
C7_Witness ==
    /\ Evaluated
    /\ is_buy(risk_call.signal)
    /\ risk_call.signal.quantity = 500
    /\ market_exposure(positions, risk_call.signal.market_slug) = 0
    /\ risk_call.decision.approved
    /\ ApprovedSignal.quantity = 400

\* Sum of the notionals of the buys of a sequence on one slug.
RECURSIVE BuyNotionalSum(_, _)
BuyNotionalSum(signals, slug) ==
    IF signals = << >> THEN 0
    ELSE (IF is_buy(Head(signals)) /\ Head(signals).market_slug = slug
          THEN notional(Head(signals)) ELSE 0)
         + BuyNotionalSum(Tail(signals), slug)

\* C8 as stated: the approved buy notionals of one batch for a slug never
\* sum to more than the per-market headroom available when the batch
\* started (the filter leaves the store as it was at the start).
C8_BatchWithinMarketHeadroom ==
    Filtered
        => \A s \in Slugs :
               BuyNotionalSum(risk_call.output.approved_signals, s)
                   <= Max(rm.config.max_position_per_market
                              - market_exposure(positions, s), 0)

-----------------------------------------------------------------------------
(* Specification PaperSpec: the order book tracker written by the feed and *)
(* the paper executor executing signals.  Money is counted in 1/Cent of a  *)
(* cent.                                                                   *)

\* The paper account starts with $4.00.
PaperInitialBalance == 400 * Cent

Level(cents, quantity) == [ price |-> cents * Cent, quantity |-> quantity ]

EmptySide == [ bids |-> << >>, asks |-> << >> ]

\* Books the feed delivers: (slug, book).
BookWrites ==
    { <<"mkt-a", [ yes |-> [ bids |-> <<Level(40, 2)>>,
                             asks |-> <<Level(60, 1), Level(50, 2)>> ],
                   no  |-> EmptySide ]>>,
      <<"mkt-a", [ yes |-> [ bids |-> <<Level(50, 2)>>,
                             asks |-> <<Level(60, 1), Level(55, 1)>> ],
                   no  |-> [ bids |-> <<Level(40, 1)>>,
                             asks |-> <<Level(50, 1)>> ] ]>> }

\* Signals handed to the executor: Critical and High are market orders,
\* Medium and Low limit orders.  The nine-contract buy costs more than the
\* account ever holds.
PaperSignals ==
    { MkSignal("mkt-a", "BuyYes",  50 * Cent, 2, "Low", None),
      MkSignal("mkt-a", "SellYes", 50 * Cent, 2, "Low", None),
      MkSignal("mkt-a", "BuyYes",  50 * Cent, 3, "High", None),
      MkSignal("mkt-a", "SellYes", 50 * Cent, 2, "High", None),
      MkSignal("mkt-a", "BuyNo",   50 * Cent, 2, "Medium", None),
      MkSignal("mkt-a", "SellNo",  40 * Cent, 1, "Low", None),
      MkSignal("mkt-b", "BuyYes",  50 * Cent, 2, "Low", None),
      MkSignal("mkt-a", "BuyYes",  50 * Cent, 9, "Low", None) }
      \cup { MkSignal(s, "CancelAll", 0, 0, "High", None) : s \in Slugs }

\* The store and the executor as one world record, and back.
World == [ balance |-> balance, positions |-> positions, orders |-> orders,
           pe |-> pe ]

PInit ==
    /\ balance   = PaperInitialBalance
    /\ markets   = [ s \in Slugs |-> None ]
    /\ positions = [ k \in PosKeys |-> None ]
    /\ orders    = [ i \in OrderIds |-> None ]
    /\ rm        = RiskManagerNew(Config, PaperInitialBalance,
                                  [ k \in PosKeys |-> None ], [ s \in Slugs |-> None ])
    /\ risk_call = NoCall
    /\ BreakerIdle
    /\ orderbook = OrderBookTrackerNew
    /\ pe        = PaperExecutorNew(PaperInitialBalance)
    /\ pe_call   = NoCall
    /\ NetIdle

\* OrderBookTracker::update
UpdateBook ==
    \E bw \in BookWrites :
        /\ orderbook' = tracker_update(orderbook, bw[1], bw[2])
        /\ UNCHANGED <<netVars, stateVars, riskVars, breakerVars, pe, pe_call>>

\* The latest call without the call before it.
LastCall == [ f \in DOMAIN pe_call \ {"prev"} |-> pe_call[f] ]

\* PaperExecutor::execute_signal.  A call that would hand out more than
\* MaxOrders order ids is not made.
ExecuteSignal ==
    \E signal \in PaperSignals :
        \E r \in { execute_signal(World, signal) } :
            /\ r.w.pe.next_order_id <= MaxOrders + 1
            /\ balance'   = r.w.balance
            /\ positions' = r.w.positions
            /\ orders'    = r.w.orders
            /\ pe'        = r.w.pe
            /\ pe_call'   = [ op |-> "execute_signal", signal |-> signal,
                              result |-> r.result, before |-> World,
                              prev |-> LastCall ]
            /\ UNCHANGED <<netVars, markets, riskVars, breakerVars, orderbook>>

\* The orders in which a HashMap may yield the keys S.
KeyOrders(S) ==
    { f \in [1..Cardinality(S) -> S] :
          \A i, j \in 1..Cardinality(S) : f[i] = f[j] => i = j }

\* PaperExecutor::check_resting_orders
CheckRestingOrders ==
    \E order_ids \in KeyOrders({ i \in OrderIds : IsSome(pe.resting_orders[i]) }) :
        \E r \in { check_resting_orders(World, order_ids) } :
            /\ balance'   = r.w.balance
            /\ positions' = r.w.positions
            /\ orders'    = r.w.orders
            /\ pe'        = r.w.pe
            /\ pe_call'   = [ op |-> "check_resting_orders",
                              order_ids |-> order_ids, fills |-> r.fills,
                              before |-> World, prev |-> LastCall ]
            /\ UNCHANGED <<netVars, markets, riskVars, breakerVars, orderbook>>

PNext ==
    \/ UpdateBook
    \/ ExecuteSignal
    \/ CheckRestingOrders

PaperSpec == PInit /\ [][PNext]_vars

-----------------------------------------------------------------------------
(* Specification TrackerSpec: one OrderBookTracker shared by writing calls  *)
(* (update, update_side, remove), which run statement by statement under   *)
(* the write lock, and by readers (get_top, get_full).                     *)

\* Books handed to update: those of BookWrites, and one for mkt-b whose
\* YES bid (0.55) is above its YES ask (0.50).
TrackerBooks ==
    BookWrites
      \cup { <<"mkt-b", [ yes |-> [ bids |-> <<Level(55, 1)>>,
                                    asks |-> <<Level(50, 1)>> ],
                          no  |-> EmptySide ]>>,
             <<"mkt-b", [ yes |-> [ bids |-> << >>, asks |-> <<Level(50, 1)>> ],
                          no  |-> [ bids |-> << >>, asks |-> <<Level(49, 1)>> ] ]>> }

\* min_margin handed to scan_completeness_arb: 0, 0.001, 0.005, 0.00901
\* and 0.01 dollars.
ArbMargins ==
    { 0, Cent \div 10, Cent \div 2, (901 * Cent) \div 1000, Cent }

\* Sides handed to update_side: (slug, side, book side).
TrackerSides ==
    { <<s, "YES", [ bids |-> <<Level(41, 1), Level(42, 1)>>,
                    asks |-> <<Level(43, 1)>> ]>> : s \in Slugs }
      \cup { <<"mkt-a", "NO", [ bids |-> << >>, asks |-> <<Level(58, 1)>> ]>> }

TInit ==
    /\ StateInit /\ RiskInit /\ BreakerIdle
    /\ orderbook = OrderBookTrackerNew
    /\ pe        = PaperExecutorNew(InitialBalance)
    /\ pe_call   = NoCall
    /\ NetIdle

\* The latest tracker call without the call before it.
LastTrackerCall == [ f \in DOMAIN ob_call \ {"prev"} |-> ob_call[f] ]

\* A writing call takes the write lock: self.inner.write().
BeginWrite ==
    /\ ob_writer = None
    /\ \E w \in { [ op |-> "update", slug |-> b[1], arg |-> b[2], pc |-> 1 ]
                      : b \in TrackerBooks }
               \cup { [ op |-> "update_side", slug |-> x[1],
                        arg |-> <<x[2], x[3]>>, pc |-> 1 ] : x \in TrackerSides }
               \cup { [ op |-> "remove", slug |-> sl, arg |-> None, pc |-> 1 ]
                        : sl \in Slugs } :
           ob_writer' = Some(w)
    /\ UNCHANGED <<stateVars, riskVars, breakerVars, paperVars, ob_call, req, feed, stratVars>>

\* The writing call runs its next statement; after its last one it returns
\* and the lock is free again.
WriteStep ==
    /\ IsSome(ob_writer)
    /\ \E r \in { write_step(orderbook, Unwrap(ob_writer)) } :
           /\ orderbook' = r.tracker
           /\ ob_writer' = r.writer
           /\ ob_call'   = IF r.writer = None
                           THEN [ op |-> Unwrap(ob_writer).op,
                                  slug |-> Unwrap(ob_writer).slug,
                                  arg |-> Unwrap(ob_writer).arg,
                                  result |-> None, prev |-> LastTrackerCall ]
                           ELSE ob_call
    /\ UNCHANGED <<stateVars, riskVars, breakerVars, pe, pe_call, req, feed, stratVars>>

\* OrderBookTracker::get_top and get_full by a reader
ReadTracker ==
    /\ readable(ob_writer)
    /\ \E slug \in Slugs :
           \/ ob_call' = [ op |-> "get_top", slug |-> slug, arg |-> None,
                           result |-> get_top(orderbook, slug),
                           prev |-> LastTrackerCall ]
           \/ ob_call' = [ op |-> "get_full", slug |-> slug, arg |-> None,
                           result |-> get_full(orderbook, slug),
                           prev |-> LastTrackerCall ]
    /\ UNCHANGED <<stateVars, riskVars, breakerVars, paperVars, ob_writer, req, feed, stratVars>>

\* OrderBookTracker::scan_completeness_arb by a reader
ScanCompletenessArb ==
    /\ readable(ob_writer)
    /\ \E min_margin \in ArbMargins :
           ob_call' = [ op |-> "scan_completeness_arb", slug |-> "*",
                        arg |-> min_margin,
                        result |-> scan_completeness_arb(orderbook, min_margin,
                                                         100 * Cent),
                        prev |-> LastTrackerCall ]
    /\ UNCHANGED <<stateVars, riskVars, breakerVars, paperVars, ob_writer, req, feed, stratVars>>

TNext ==
    \/ BeginWrite
    \/ WriteStep
    \/ ReadTracker
    \/ ScanCompletenessArb

TrackerSpec == TInit /\ [][TNext]_vars

-----------------------------------------------------------------------------
(* Order book tracker claims (TrackerSpec)                                 *)

\* The stored top of a slug is the top computed from its stored book.
TopMatchesBook(slug) ==
    orderbook.tops[slug]
        = IF orderbook.books[slug] = None THEN None
          ELSE Some(compute_top(Unwrap(orderbook.books[slug])))

\* C15.  Whenever a reader can take the lock, the stored top of every slug
\* is the top of that slug's stored book (both absent for an untracked
\* slug); and a get_top that follows an update of the same slug, with no
\* writing call between them, returns the top computed from the book that
\* update stored.
C15_TopAndBookPublishedTogether ==
    /\ readable(ob_writer) => \A slug \in Slugs : TopMatchesBook(slug)
    /\ (/\ ob_call.op = "get_top"
        /\ ob_call.prev.op = "update"
        /\ ob_call.prev.slug = ob_call.slug
        /\ ob_writer = None)
           => ob_call.result = Some(compute_top(ob_call.prev.arg))

\* C15 witness: a get_top right after an update that replaced a tracked
\* book by one with a different top.
C15_Witness ==
    /\ ob_call.op = "get_top"
    /\ ob_call.prev.op = "update"
    /\ ob_call.prev.slug = ob_call.slug
    /\ ob_call.result = Some(compute_top(ob_call.prev.arg))
    /\ IsSome(Unwrap(ob_call.result).yes_best_bid)
    /\ IsSome(Unwrap(ob_call.result).no_best_ask)

\* A best bid and a best ask that both exist are in order.
Uncrossed(bid, ask) == (IsSome(bid) /\ IsSome(ask)) => Unwrap(bid) < Unwrap(ask)

\* C16.  After any sequence of update and update_side calls, every top of
\* book the tracker exposes has best_bid < best_ask on each side on which
\* both exist.
C16_ExposedTopsUncrossed ==
    readable(ob_writer)
        => \A slug \in Slugs :
               IsSome(get_top(orderbook, slug))
                   => /\ Uncrossed(Unwrap(get_top(orderbook, slug)).yes_best_bid,
                                   Unwrap(get_top(orderbook, slug)).yes_best_ask)
                      /\ Uncrossed(Unwrap(get_top(orderbook, slug)).no_best_bid,
                                   Unwrap(get_top(orderbook, slug)).no_best_ask)

\* The scan of this step reports slug.
Reported(slug) == \E signal \in ob_call'.result : signal.market_slug = slug

\* Both asks of slug exist and yes_ask + no_ask + fee_rate * (yes_ask +
\* no_ask) < 1 - min_margin, with fee_rate = 0.001.
ArbEligible(slug, min_margin) ==
    /\ IsSome(orderbook.tops[slug])
    /\ IsSome(Unwrap(orderbook.tops[slug]).yes_best_ask)
    /\ IsSome(Unwrap(orderbook.tops[slug]).no_best_ask)
    /\ LET sum == Unwrap(Unwrap(orderbook.tops[slug]).yes_best_ask)
                     + Unwrap(Unwrap(orderbook.tops[slug]).no_best_ask)
       IN  sum + sum \div 1000 < 100 * Cent - min_margin

\* C24: the scanner reports a market if and only if both asks exist and
\* their sum plus the fee on it is strictly below 1 - min_margin; a net
\* margin equal to min_margin is not reported.
C24_ReportedIffNetAboveMinMargin ==
    [][ ScanCompletenessArb =>
          \A slug \in Slugs : Reported(slug) <=> ArbEligible(slug, ob_call'.arg) ]_vars

\* A scan at min_margin 0.00901 over asks 0.50 and 0.49 (net margin exactly
\* 0.00901) that reported nothing, after a scan at 0.005 that reported it.
C24_Witness ==
    /\ ob_call.op = "scan_completeness_arb"
    /\ ob_call.arg = (901 * Cent) \div 1000
    /\ ob_call.result = {}
    /\ ob_call.prev.op = "scan_completeness_arb"
    /\ ob_call.prev.arg = Cent \div 2
    /\ \E signal \in ob_call.prev.result :
           /\ signal.market_slug = "mkt-b"
           /\ signal.net_margin = (901 * Cent) \div 1000

-----------------------------------------------------------------------------
(* Engine claims (Spec)                                                    *)

\* What identifies a signal through the pipeline, which may resize it.
SignalKey(signal) ==
    [ market_slug |-> signal.market_slug, action |-> signal.action,
      price |-> signal.price, urgency |-> signal.urgency ]

\* a can be had from b by leaving elements out.
RECURSIVE IsSubseq(_, _)
IsSubseq(a, b) ==
    IF a = << >> THEN TRUE
    ELSE IF b = << >> THEN FALSE
    ELSE IF Head(a) = Head(b) THEN IsSubseq(Tail(a), Tail(b))
    ELSE IsSubseq(a, Tail(b))

KeysOfUrgency(signals, u) ==
    LET of_u == SelectSeq(signals, LAMBDA x : x.urgency = u)
    IN  [ i \in 1..Len(of_u) |-> SignalKey(of_u[i]) ]

\* C22: the approved signals come back in descending urgency order, and
\* among signals of equal urgency the order in which the strategies
\* produced them is kept.
C22_ApprovedByUrgencyThenProduction ==
    Filtered =>
        LET out == risk_call.output.approved_signals
        IN  /\ Len(out) + risk_call.output.rejected_count = Len(risk_call.signals)
            /\ \A i, j \in 1..Len(out) :
                   i < j => UrgencyRank(out[i].urgency) >= UrgencyRank(out[j].urgency)
            /\ \A u \in {"Low", "Medium", "High", "Critical"} :
                   IsSubseq(KeysOfUrgency(out, u), KeysOfUrgency(risk_call.signals, u))

\* A batch produced lowest urgency first, both signals approved, and one
\* of two distinct signals of equal urgency, both approved.
C22_Witness ==
    /\ Filtered
    /\ Len(risk_call.signals) = 2
    /\ Len(risk_call.output.approved_signals) = 2
    /\ UrgencyRank(risk_call.signals[1].urgency) < UrgencyRank(risk_call.signals[2].urgency)
    /\ SignalKey(risk_call.output.approved_signals[1]) = SignalKey(risk_call.signals[2])

-----------------------------------------------------------------------------
(* Drawdown gate and cash check claims (Spec)                              *)

\* (starting_equity - current_equity) / starting_equity >=
\* max_total_pnl_drawdown_pct_for_new_buys
DrawdownAtLimit ==
    /\ rm.starting_equity > 0
    /\ (rm.starting_equity - get_total_equity(balance, positions, markets)) * PctScale
           >= rm.config.max_total_pnl_drawdown_pct_for_new_buys * rm.starting_equity

\* The manager with its drawdown gate switched off.
Ungated == [ rm EXCEPT !.config.max_total_pnl_drawdown_pct_for_new_buys = 0 ]

\* C25: while the drawdown from the starting equity is at or beyond
\* max_total_pnl_drawdown_pct_for_new_buys every buy is rejected; a sell
\* is decided as it would be without the gate.
C25_DrawdownGateRejectsBuys ==
    /\ (Evaluated /\ DrawdownAtLimit /\ is_buy(risk_call.signal))
           => ~risk_call.decision.approved
    /\ (Filtered /\ DrawdownAtLimit)
           => \A i \in DOMAIN risk_call.output.approved_signals :
                  ~is_buy(risk_call.output.approved_signals[i])
    /\ (Evaluated /\ is_sell(risk_call.signal))
           => risk_call.decision = evaluate_signal(Ungated, risk_call.signal).decision

\* A buy rejected by the gate with the drawdown exactly at the limit, the
\* breaker not tripped.
C25_Witness ==
    /\ Evaluated
    /\ is_buy(risk_call.signal)
    /\ (rm.starting_equity - get_total_equity(balance, positions, markets)) * PctScale
           = rm.config.max_total_pnl_drawdown_pct_for_new_buys * rm.starting_equity
    /\ ~is_tripped(rm.circuit_breaker)
    /\ risk_call.decision.reason = "Rejected: portfolio drawdown blocks new buys"

\* floor(0.98 * balance / price) for a price above zero, in contracts.
CashFloor(price) == (98 * balance) \div (100 * price)

\* C26: the pipeline only reduces size: an approved buy has a quantity of
\* at most the requested one and at most floor(0.98 * balance / price),
\* and a buy for which that floor is <= 0 is rejected (by the cash check
\* when the breaker lets the pipeline run).
C26_ApprovedBuyWithinRequestAndCash ==
    /\ (Evaluated /\ risk_call.decision.approved)
           => ApprovedSignal.quantity <= risk_call.signal.quantity
    /\ (Evaluated /\ is_buy(risk_call.signal) /\ risk_call.signal.price > 0)
           => /\ risk_call.decision.approved
                    => ApprovedSignal.quantity <= CashFloor(risk_call.signal.price)
              /\ (CashFloor(risk_call.signal.price) <= 0 /\ risk_call.signal.quantity > 0)
                    => /\ ~risk_call.decision.approved
                       /\ risk_call.decision.reason
                              \in {"Circuit breaker", "Rejected: insufficient cash"}
    /\ Filtered
           => \A i \in DOMAIN risk_call.output.approved_signals :
                  LET a == risk_call.output.approved_signals[i]
                  IN  /\ \E j \in DOMAIN risk_call.signals :
                             /\ SignalKey(risk_call.signals[j]) = SignalKey(a)
                             /\ a.quantity <= risk_call.signals[j].quantity
                      /\ (is_buy(a) /\ a.price > 0) => a.quantity <= CashFloor(a.price)

\* A buy of 300 @ 0.50 on a balance of $0.40 is rejected by the cash check.
C26_Witness ==
    /\ Evaluated
    /\ is_buy(risk_call.signal)
    /\ risk_call.signal.quantity = 300
    /\ CashFloor(risk_call.signal.price) = 0
    /\ risk_call.decision.reason = "Rejected: insufficient cash"

-----------------------------------------------------------------------------
(* Specification SizerSpec: calls of the risk manager's Kelly sizer.  The  *)
(* call and its result are recorded in risk_call.                          *)

\* Arguments of calculate_position_size: bankroll in cents, market price
\* and probability in hundredths, confidence in hundredths.
SizerBankrolls == {0, 1000, 100000}

SizerPrices == {0, 40, 50, 100}

SizerProbabilities == {40, 49, 50, 51, 52, 53, 60}

SizerConfidences == {50, 100}

\* KellyPositionSizer::calculate_position_size on the risk manager's sizer
CalculatePositionSize ==
    \E bankroll \in SizerBankrolls, market_price \in SizerPrices,
       probability \in SizerProbabilities, confidence \in SizerConfidences :
        /\ risk_call' =
              [ op |-> "calculate_position_size", bankroll |-> bankroll,
                market_price |-> market_price, probability |-> probability,
                confidence |-> confidence,
                result |-> calculate_position_size(
                               rm.position_sizer, bankroll, market_price,
                               [ probability |-> probability,
                                 confidence  |-> confidence ]) ]
        /\ UNCHANGED <<netVars, stateVars, rm, breakerVars, paperVars>>

KNext == CalculatePositionSize

SizerSpec == Init /\ [][KNext]_vars

-----------------------------------------------------------------------------
(* Kelly sizer claims (SizerSpec)                                          *)

Sized == risk_call.op = "calculate_position_size"

\* p - price, in hundredths.
SizedEdge == risk_call.probability - risk_call.market_price

\* The sign of the full Kelly fraction (p*b - q)/b with b = (1 - P)/P, for
\* 0 < P < 1: that of p*(1 - P) - (1 - p)*P.
KellyFullSign ==
    risk_call.probability * (ONE - risk_call.market_price)
        - (ONE - risk_call.probability) * risk_call.market_price

\* floor(bankroll * kelly_full * kelly_fraction * confidence / price) with
\* kelly_full = (p - P)/(1 - P).
KellyContracts ==
    (risk_call.bankroll * SizedEdge * rm.position_sizer.kelly_fraction
        * risk_call.confidence)
      \div ((ONE - risk_call.market_price) * PctScale * PctScale
              * risk_call.market_price)

\* C23: the sizer returns None whenever |p - price| < min_edge or the full
\* Kelly fraction is <= 0; the edge test is strict, so an edge equal to
\* min_edge that sizes to at least one contract is given a size.
C23_NoneBelowMinEdgeOrNoKelly ==
    (Sized /\ risk_call.bankroll > 0
           /\ risk_call.market_price > 0 /\ risk_call.market_price < ONE) =>
        /\ (Abs(SizedEdge) < rm.position_sizer.min_edge \/ KellyFullSign <= 0)
              => risk_call.result = None
        /\ (SizedEdge = rm.position_sizer.min_edge /\ KellyContracts >= 1)
              => /\ IsSome(risk_call.result)
                 /\ Unwrap(risk_call.result).contracts = KellyContracts

\* The edge is exactly min_edge and the call returned a size.
C23_Witness ==
    /\ Sized
    /\ SizedEdge = rm.position_sizer.min_edge
    /\ IsSome(risk_call.result)
    /\ Unwrap(risk_call.result).contracts = 20

-----------------------------------------------------------------------------
(* Specification ClientSpec: requests of a PolymarketClient, one at a time, *)
(* each attempt answered by the server or failing in transport.            *)

\* The largest max_retries a client is built with.
MaxAttempts == 3

Status(status, retry_after, body) ==
    [ kind |-> "status", status |-> status, retry_after |-> retry_after,
      body |-> body ]

\* What an attempt can meet.
Responses ==
    { Status(200, None, "ok"), Status(200, None, "garbage"),
      Status(429, None, "ok"), Status(429, Some(2), "ok"),
      Status(500, None, "ok"), Status(503, None, "garbage"),
      Status(400, None, "INSUFFICIENT_BALANCE"), Status(404, None, "garbage"),
      Status(304, None, "garbage") }
      \cup { [ kind |-> "transport", timeout |-> t ] : t \in BOOLEAN }

CInit ==
    /\ StateInit /\ RiskInit /\ BreakerIdle /\ PaperIdle
    /\ ob_writer = None
    /\ ob_call   = NoCall
    /\ req       = request(MaxAttempts)
    /\ feed      = NoCall
    /\ StratIdle

\* PolymarketClient::request is called (again, once the last call is over)
StartRequest ==
    /\ req.pc = "done"
    /\ \E max_retries \in 0..MaxAttempts : req' = request(max_retries)
    /\ UNCHANGED <<stateVars, riskVars, breakerVars, paperVars, trackerVars, feed, stratVars>>

\* One attempt of the request in progress
Attempt ==
    /\ req.pc = "loop"
    /\ \E response \in Responses : req' = request_attempt(req, response)
    /\ UNCHANGED <<stateVars, riskVars, breakerVars, paperVars, trackerVars, feed, stratVars>>

CNext ==
    \/ StartRequest
    \/ Attempt

ClientSpec == CInit /\ [][CNext]_vars

-----------------------------------------------------------------------------
(* Specification FeedSpec: the poll cycles of a MarketFeed over markets    *)
(* seeded by discovery.  feed is the observer's record of the last cycle:  *)
(* the slugs it polled and, per slug, the failures in a row so far.        *)

\* The failures in a row the observer counts up to.
MaxFailures == 3

\* Books get_market_sides returns.
FeedBooks ==
    { [ yes |-> [ bids |-> <<Level(b, 1)>>, asks |-> <<Level(b + 4, 1)>> ],
        no  |-> EmptySide ] : b \in {40, 50, 60} }

FInit ==
    /\ balance   = InitialBalance
    /\ markets   = [ s \in Slugs |-> Some([ yes_bid |-> None, yes_ask |-> None,
                                            no_bid  |-> None, no_ask  |-> None ]) ]
    /\ positions = [ k \in PosKeys |-> None ]
    /\ orders    = [ i \in OrderIds |-> None ]
    /\ RiskInit /\ BreakerIdle /\ PaperIdle
    /\ ob_writer = None
    /\ ob_call   = NoCall
    /\ req       = NoCall
    /\ feed      = [ op |-> "new", polled |-> {}, failures |-> [ s \in Slugs |-> 0 ] ]
    /\ StratIdle

\* One poll cycle
PollCycle ==
    \E results \in [ poll_slugs(orderbook, markets) ->
                        {None} \cup { Some(book) : book \in FeedBooks } ] :
      \E w \in { poll_cycle([ orderbook |-> orderbook, markets |-> markets ], results) } :
        /\ orderbook' = w.orderbook
        /\ markets'   = w.markets
        /\ feed' = [ op |-> "poll_cycle", polled |-> DOMAIN results,
                     failures |-> [ s \in Slugs |->
                         IF s \notin DOMAIN results THEN feed.failures[s]
                         ELSE IF IsSome(results[s]) THEN 0
                         ELSE Min(feed.failures[s] + 1, MaxFailures) ] ]
        /\ UNCHANGED <<balance, positions, orders, riskVars, breakerVars, pe,
                       pe_call, trackerVars, req, stratVars>>

FNext == PollCycle

FeedSpec == FInit /\ [][FNext]_vars

-----------------------------------------------------------------------------
(* Market feed claims (FeedSpec)                                           *)

\* C20: a slug that failed max_consecutive_failures (3) polls in a row is
\* out of the active set and is polled no more; a successful poll starts
\* its count again at zero.
C20_FailingSlugDropped ==
    \A s \in Slugs :
        feed.failures[s] >= MaxFailures => s \notin poll_slugs(orderbook, markets)

-----------------------------------------------------------------------------
(* Specification ShutdownSpec: the three tasks of main (the Ctrl+C         *)
(* listener, the trading loop and the feed task) and the two Notify        *)
(* objects between them.  Notify::notify_waiters wakes the tasks that are  *)
(* waiting in notified() at that moment and stores no permit; a task that  *)
(* is woken in its select! takes the notified() branch.                    *)

\* tick_count is read modulo 10 and modulo 30 only.
TickPeriod == 30

\* cycle is read modulo 6 only.
CyclePeriod == 6

SInit ==
    /\ StateInit /\ RiskInit /\ BreakerIdle /\ PaperIdle
    /\ ob_writer = None
    /\ ob_call   = NoCall
    /\ req       = NoCall
    /\ feed      = NoCall
    /\ mm        = NoCall
    /\ la        = NoCall
    /\ le        = NoCall
    /\ sys = [ signal |-> "armed", main |-> "initial_sleep", main_notified |-> FALSE,
               tick_count |-> 0, feed |-> "select", feed_notified |-> FALSE,
               cycle |-> 0 ]

\* The listener task: ctrl_c() completes, shutdown.notify_waiters()
CtrlC ==
    /\ sys.signal = "armed"
    /\ sys' = [ sys EXCEPT !.signal = "fired",
                           !.main_notified = (sys.main = "select") ]
    /\ UNCHANGED <<stateVars, riskVars, breakerVars, paperVars, trackerVars, req, feed, mm, la, le>>

\* main: the 10 s wait for initial market data is over; the loop enters select!
InitialSleep ==
    /\ sys.main = "initial_sleep"
    /\ sys' = [ sys EXCEPT !.main = "select" ]
    /\ UNCHANGED <<stateVars, riskVars, breakerVars, paperVars, trackerVars, req, feed, mm, la, le>>

\* main: select! takes the sleep(tick_duration) branch and runs the tick body
MainTick ==
    /\ sys.main = "select"
    /\ ~sys.main_notified
    /\ sys' = [ sys EXCEPT !.main = "tick",
                           !.tick_count = (@ + 1) % TickPeriod ]
    /\ UNCHANGED <<stateVars, riskVars, breakerVars, paperVars, trackerVars, req, feed, mm, la, le>>

\* main: the tick body is over; the loop enters select! again
TickDone ==
    /\ sys.main = "tick"
    /\ sys' = [ sys EXCEPT !.main = "select" ]
    /\ UNCHANGED <<stateVars, riskVars, breakerVars, paperVars, trackerVars, req, feed, mm, la, le>>

\* main: select! takes the shutdown.notified() branch and breaks
MainExit ==
    /\ sys.main = "select"
    /\ sys.main_notified
    /\ sys' = [ sys EXCEPT !.main = "shutdown", !.main_notified = FALSE ]
    /\ UNCHANGED <<stateVars, riskVars, breakerVars, paperVars, trackerVars, req, feed, mm, la, le>>

\* main: feed_shutdown.notify_waiters(), then feed_handle.await
StopFeed ==
    /\ sys.main = "shutdown"
    /\ sys' = [ sys EXCEPT !.main = "await_feed",
                           !.feed_notified = (sys.feed = "select") ]
    /\ UNCHANGED <<stateVars, riskVars, breakerVars, paperVars, trackerVars, req, feed, mm, la, le>>

\* main: feed_handle.await returns, the final report is logged
FinalReport ==
    /\ sys.main = "await_feed"
    /\ sys.feed = "stopped"
    /\ sys' = [ sys EXCEPT !.main = "done" ]
    /\ UNCHANGED <<stateVars, riskVars, breakerVars, paperVars, trackerVars, req, feed, mm, la, le>>

\* feed task: select! takes the sleep(poll_interval) branch and polls
FeedPoll ==
    /\ sys.feed = "select"
    /\ ~sys.feed_notified
    /\ sys' = [ sys EXCEPT !.feed = "poll",
                           !.cycle = (@ + 1) % CyclePeriod ]
    /\ UNCHANGED <<stateVars, riskVars, breakerVars, paperVars, trackerVars, req, feed, mm, la, le>>

\* feed task: the poll is over; the loop enters select! again
FeedPollDone ==
    /\ sys.feed = "poll"
    /\ sys' = [ sys EXCEPT !.feed = "select" ]
    /\ UNCHANGED <<stateVars, riskVars, breakerVars, paperVars, trackerVars, req, feed, mm, la, le>>

\* feed task: select! takes the feed_shutdown_rx.notified() branch and breaks
FeedExit ==
    /\ sys.feed = "select"
    /\ sys.feed_notified
    /\ sys' = [ sys EXCEPT !.feed = "stopped", !.feed_notified = FALSE ]
    /\ UNCHANGED <<stateVars, riskVars, breakerVars, paperVars, trackerVars, req, feed, mm, la, le>>

SNext ==
    \/ CtrlC
    \/ InitialSleep
    \/ MainTick
    \/ TickDone
    \/ MainExit
    \/ StopFeed
    \/ FinalReport
    \/ FeedPoll
    \/ FeedPollDone
    \/ FeedExit

\* Every task that can take a step eventually takes one: timers elapse,
\* loop bodies end and woken tasks run.  Ctrl+C may never come.
ShutdownSpec ==
    /\ SInit /\ [][SNext]_vars
    /\ WF_vars(InitialSleep) /\ WF_vars(TickDone) /\ WF_vars(MainTick)
    /\ WF_vars(MainExit) /\ WF_vars(StopFeed) /\ WF_vars(FinalReport)
    /\ WF_vars(FeedPoll) /\ WF_vars(FeedPollDone) /\ WF_vars(FeedExit)

-----------------------------------------------------------------------------
(* Shutdown claims (ShutdownSpec)                                          *)

\* C21: once the shutdown signal has fired, wherever the tasks are in
\* their cycles, the tick loop exits, the feed is stopped and waited on,
\* and main reaches its final shutdown step.
C21_SignalLeadsToFinalStep ==
    (sys.signal = "fired") ~> (sys.main = "done")

-----------------------------------------------------------------------------
(* REST client claims (ClientSpec)                                         *)

LastResponse == req.responses[Len(req.responses)]

\* The answers after which the loop goes on to its next turn.
Retried(response) ==
    \/ response.kind = "transport"
    \/ response.status = 429
    \/ response.status >= 500

\* The request is over because its last allowed attempt failed.
Exhausted ==
    /\ req.pc = "done"
    /\ Len(req.responses) > 0
    /\ Retried(LastResponse)

\* C17: when a request uses up all its attempts without a success, the
\* error returned is MaxRetriesExceeded wrapping the last observed error.
C17_ExhaustionReturnsMaxRetriesExceeded ==
    Exhausted =>
        /\ ~Unwrap(req.outcome).ok
        /\ Unwrap(req.outcome).error.type = "MaxRetriesExceeded"
        /\ Unwrap(req.outcome).error.last_error = Unwrap(req.last_error)

\* C18: a 429 makes the request sleep for Retry-After seconds (1 if the
\* header is absent) and retry; it never ends the request as exhausted.
C18_RateLimitedAlwaysRetried ==
    (Len(req.responses) > 0 /\ LastResponse.kind = "status"
        /\ LastResponse.status = 429) =>
        /\ req.slept[Len(req.slept)] =
               1000 * (IF IsSome(LastResponse.retry_after)
                       THEN Unwrap(LastResponse.retry_after) ELSE 1)
        /\ req.pc = "loop"

\* The request returned before its last allowed attempt.
EndedEarly == req.pc = "done" /\ Len(req.responses) < req.max_retries

\* The request returned the error mapped from the last response.
ReturnedMapped ==
    req.outcome = Some([ ok |-> FALSE,
                         error |-> from_response(LastResponse.status,
                                                 LastResponse.body) ])

\* C19 as stated: a request makes at most max_retries attempts, the first
\* included; it ends earlier only on a 2xx or on a 4xx other than 429,
\* which is returned as the mapped error without a retry.
C19_AtMostMaxRetriesAttempts ==
    /\ Len(req.responses) <= req.max_retries
    /\ EndedEarly =>
          /\ LastResponse.kind = "status"
          /\ \/ LastResponse.status \in 200..299
             \/ LastResponse.status \in 400..499 \ {429} /\ ReturnedMapped

\* C19 amended: a request makes at most max_retries attempts, the first
\* included; it ends earlier only on a 2xx or on any other status below
\* 500 that is not 429 (a 4xx, but also a 3xx), which is returned as the
\* mapped error without a retry.
C19_AtMostMaxRetriesAttemptsNoRetryBelow500 ==
    /\ Len(req.responses) <= req.max_retries
    /\ EndedEarly =>
          /\ LastResponse.kind = "status"
          /\ \/ LastResponse.status \in 200..299
             \/ LastResponse.status \in 0..499 \ {429} /\ ReturnedMapped

\* A request that was retried once and then ended early on a 304.
C19_Witness ==
    /\ EndedEarly
    /\ Len(req.responses) = 2
    /\ Retried(req.responses[1])
    /\ LastResponse.status = 304
    /\ ReturnedMapped

-----------------------------------------------------------------------------
(* Paper executor claims (PaperSpec)                                       *)

Executed == pe_call.op = "execute_signal"

\* The latest two executor calls were a buy and then a sell of the same
\* side of one market, the market held no position before the buy, and
\* both filled the same quantity at the same fill price.
RoundTrip ==
    /\ Executed
    /\ pe_call.prev.op = "execute_signal"
    /\ is_buy(pe_call.prev.signal)
    /\ is_sell(pe_call.signal)
    /\ pe_call.prev.signal.market_slug = pe_call.signal.market_slug
    /\ intent_side(Unwrap(to_intent(pe_call.prev.signal.action)))
           = intent_side(Unwrap(to_intent(pe_call.signal.action)))
    /\ \A side \in Sides :
           /\ pe_call.prev.before.pe.positions[
                  position_key(pe_call.signal.market_slug, side)] = None
           /\ pe_call.prev.before.positions[
                  position_key(pe_call.signal.market_slug, side)] = None
    /\ pe_call.prev.result.filled_quantity > 0
    /\ pe_call.result.filled_quantity = pe_call.prev.result.filled_quantity
    /\ pe_call.result.avg_fill_price = pe_call.prev.result.avg_fill_price

\* C9.  Starting with no position in a market, a buy filled for Q at price
\* P immediately followed by a sell filled for Q at the same P leaves no
\* position for that market, and the cash balance is lower than before the
\* buy by exactly the two fees, one per fill, each P * Q * fee rate.
C9_RoundTripCostsTwoFees ==
    RoundTrip
        => /\ \A side \in Sides :
                  /\ pe.positions[position_key(pe_call.signal.market_slug, side)] = None
                  /\ positions[position_key(pe_call.signal.market_slug, side)] = None
           /\ balance = pe_call.prev.before.balance
                            - pe_call.prev.result.fee - pe_call.result.fee
           /\ pe_call.result.fee = pe_call.prev.result.fee
           /\ pe_call.result.fee =
                  MulFrac(Unwrap(pe_call.result.avg_fill_price)
                              * pe_call.result.filled_quantity, TAKER_FEE_RATE)
           /\ pe_call.result.fee > 0
           /\ Len(pe.fill_history)
                  = Len(pe_call.prev.before.pe.fill_history) + 2

\* C9 witness: two contracts bought at 0.50 and sold at 0.50.
C9_Witness ==
    /\ RoundTrip
    /\ pe_call.result.filled_quantity = 2
    /\ pe_call.result.avg_fill_price = Some(50 * Cent)
    /\ balance < pe_call.prev.before.balance

PaperKey(signal) ==
    position_key(signal.market_slug, intent_side(Unwrap(to_intent(signal.action))))

\* C11.  A paper sell for a (slug, side) on which the executor holds no
\* position is rejected with an error and no order id, and the call changes
\* nothing: balance, positions, the store's orders and the whole executor
\* (resting orders, fill history, performance, next order id) are as before
\* the call.
C11_SellWithoutPositionRejected ==
    (/\ Executed
     /\ is_sell(pe_call.signal)
     /\ pe_call.before.pe.positions[PaperKey(pe_call.signal)] = None)
        => /\ pe_call.result.status = "Rejected"
           /\ pe_call.result.filled_quantity = 0
           /\ pe_call.result.order_id = NoOrderId
           /\ IsSome(pe_call.result.error)
           /\ World = pe_call.before

\* C11 witness: a sell without a position, made when the executor already
\* has a resting order, a fill in its history and an order in the store.
C11_Witness ==
    /\ Executed
    /\ is_sell(pe_call.signal)
    /\ pe_call.before.pe.positions[PaperKey(pe_call.signal)] = None
    /\ pe_call.before.pe.fill_history # << >>
    /\ \E i \in OrderIds : IsSome(pe_call.before.pe.resting_orders[i])
    /\ \E i \in OrderIds : IsSome(pe_call.before.orders[i])
    /\ pe_call.result.status = "Rejected"

\* The asks a buy signal is matched against when the call is made.
AsksFor(slug, side) ==
    IF get_full(orderbook, slug) = None THEN << >>
    ELSE side_of_book(Unwrap(get_full(orderbook, slug)), side).asks

\* The quantity offered at or below a limit price.
RECURSIVE AskDepth(_, _)
AskDepth(levels, limit) ==
    IF levels = << >> THEN 0
    ELSE (IF Head(levels).price <= limit THEN Head(levels).quantity ELSE 0)
             + AskDepth(Tail(levels), limit)

\* This step is a call of execute_signal with a Low or Medium buy whose
\* limit price is below every ask of the book.
LimitBuyBelowAsks ==
    /\ ExecuteSignal
    /\ is_buy(pe_call'.signal)
    /\ pe_call'.signal.urgency \in {"Low", "Medium"}
    /\ AskDepth(AsksFor(pe_call'.signal.market_slug, PaperKey(pe_call'.signal)[2]),
                pe_call'.signal.price) = 0

\* The buy of this step passes the balance pre-check of execute_signal.
Affordable ==
    pe_call'.signal.price * pe_call'.signal.quantity
        + MulFrac(pe_call'.signal.price * pe_call'.signal.quantity, TAKER_FEE_RATE)
      <= balance

\* The call of this step returned Open with nothing filled, added exactly
\* one resting order (the signal's, under the returned id) and moved no
\* cash.
RestsOpen ==
    /\ pe_call'.result.status = "Open"
    /\ pe_call'.result.filled_quantity = 0
    /\ balance' = balance
    /\ pe_call'.result.order_id \in OrderIds
    /\ pe.resting_orders[pe_call'.result.order_id] = None
    /\ pe'.resting_orders =
           [ pe.resting_orders EXCEPT ![pe_call'.result.order_id] =
               Some([ order_id        |-> pe_call'.result.order_id,
                      market_slug     |-> pe_call'.signal.market_slug,
                      intent          |-> Unwrap(to_intent(pe_call'.signal.action)),
                      price           |-> pe_call'.signal.price,
                      total_quantity  |-> pe_call'.signal.quantity,
                      filled_quantity |-> 0 ]) ]

\* In this step, a call of check_resting_orders, every resting buy whose
\* book shows asks at or below its limit is filled for the smaller of its
\* remaining quantity and the quantity offered at or below the limit, at a
\* price not above the limit; it leaves the resting set when that fills it
\* and stays, with the fill added, when it does not.
RestingBuysFilled ==
    \A i \in OrderIds :
        (/\ IsSome(pe.resting_orders[i])
         /\ intent_is_buy(Unwrap(pe.resting_orders[i]).intent)
         /\ AskDepth(AsksFor(Unwrap(pe.resting_orders[i]).market_slug,
                             intent_side(Unwrap(pe.resting_orders[i]).intent)),
                     Unwrap(pe.resting_orders[i]).price) > 0)
        => LET o     == Unwrap(pe.resting_orders[i])
               depth == AskDepth(AsksFor(o.market_slug, intent_side(o.intent)), o.price)
               want  == Min(resting_remaining(o), depth)
           IN  /\ \E k \in 1..Len(pe_call'.fills) :
                      /\ pe_call'.fills[k].order_id = i
                      /\ pe_call'.fills[k].is_buy
                      /\ pe_call'.fills[k].quantity = want
                      /\ pe_call'.fills[k].price <= o.price
               /\ want = resting_remaining(o) => pe'.resting_orders[i] = None
               /\ want < resting_remaining(o)
                      => pe'.resting_orders[i]
                           = Some([ o EXCEPT !.filled_quantity = @ + want ])

\* C12 as stated.  Every Low or Medium buy whose limit price is below every
\* ask returns Open with zero filled, adds exactly one resting order and
\* moves no cash; and check_resting_orders fills a resting buy once the book
\* shows asks at or below its limit, at a price not above the limit,
\* removing it when it is fully filled.
C12_LimitBuyRestsThenFills ==
    [][ /\ LimitBuyBelowAsks => RestsOpen
        /\ CheckRestingOrders => RestingBuysFilled ]_vars

\* C12 amended.  The same, for the buys that pass the balance pre-check
\* (price * quantity plus the fee estimate is at most the balance).
C12_AffordableLimitBuyRestsThenFills ==
    [][ /\ (LimitBuyBelowAsks /\ Affordable) => RestsOpen
        /\ CheckRestingOrders => RestingBuysFilled ]_vars

\* C12 witness: check_resting_orders has just filled, at a price not above
\* its limit, a two-contract buy that had rested with nothing filled, and
\* removed it from the resting set.
C12_Witness ==
    /\ pe_call.op = "check_resting_orders"
    /\ \E i \in OrderIds :
           /\ IsSome(pe_call.before.pe.resting_orders[i])
           /\ intent_is_buy(Unwrap(pe_call.before.pe.resting_orders[i]).intent)
           /\ Unwrap(pe_call.before.pe.resting_orders[i]).filled_quantity = 0
           /\ pe.resting_orders[i] = None
           /\ \E k \in 1..Len(pe_call.fills) :
                  /\ pe_call.fills[k].order_id = i
                  /\ pe_call.fills[k].quantity = 2
                  /\ pe_call.fills[k].price
                         <= Unwrap(pe_call.before.pe.resting_orders[i]).price
           /\ balance < pe_call.before.balance

\* The quantity of all the asks, and what they cost together.
TotalAsks(levels) ==
    IF levels = << >> THEN 0 ELSE AskDepth(levels, MaxPrice(levels))

RECURSIVE AskCost(_)
AskCost(levels) ==
    IF levels = << >> THEN 0
    ELSE Head(levels).price * Head(levels).quantity + AskCost(Tail(levels))

\* This step is a call of execute_signal with a Critical or High buy for
\* more contracts than the asks of the market's book offer.
MarketBuyBeyondDepth ==
    /\ ExecuteSignal
    /\ is_buy(pe_call'.signal)
    /\ pe_call'.signal.urgency \in {"Critical", "High"}
    /\ IsSome(get_full(orderbook, pe_call'.signal.market_slug))
    /\ TotalAsks(AsksFor(pe_call'.signal.market_slug, PaperKey(pe_call'.signal)[2]))
           < pe_call'.signal.quantity

\* The call of this step filled every ask of the book, at their
\* volume-weighted price moved up by the slippage, and reported
\* PartiallyFilled.
FillsWholeDepth ==
    LET asks == AsksFor(pe_call'.signal.market_slug, PaperKey(pe_call'.signal)[2])
        vwap == AskCost(asks) \div TotalAsks(asks)
    IN  /\ pe_call'.result.status = "PartiallyFilled"
        /\ pe_call'.result.filled_quantity = TotalAsks(asks)
        /\ TotalAsks(asks) > 0
               => /\ pe_call'.result.avg_fill_price
                       = Some(vwap + MulFrac(vwap, MARKET_ORDER_SLIPPAGE_BPS))
                  /\ Len(pe'.fill_history) = Len(pe.fill_history) + 1
                  /\ pe'.fill_history[Len(pe'.fill_history)].quantity = TotalAsks(asks)

\* C13 as stated.  Every Critical or High buy for N contracts against a
\* book whose asks total D < N fills exactly D contracts, all the levels
\* from the best ask upward, and reports PartiallyFilled.
C13_MarketBuyFillsDepth ==
    [][ MarketBuyBeyondDepth => FillsWholeDepth ]_vars

\* C13 amended.  The same, for the buys that pass the balance pre-check and
\* find at least one contract offered (0 < D < N).
C13_AffordableMarketBuyFillsDepth ==
    [][ (/\ MarketBuyBeyondDepth
         /\ Affordable
         /\ TotalAsks(AsksFor(pe_call'.signal.market_slug,
                              PaperKey(pe_call'.signal)[2])) > 0)
        => FillsWholeDepth ]_vars

\* C13 witness: a High buy for 3 against asks of 1 @ 0.60 and 1 @ 0.55 has
\* filled 2 at 0.575 plus slippage and is PartiallyFilled.
C13_Witness ==
    /\ Executed
    /\ is_buy(pe_call.signal)
    /\ pe_call.signal.urgency = "High"
    /\ pe_call.signal.quantity = 3
    /\ pe_call.result.status = "PartiallyFilled"
    /\ pe_call.result.filled_quantity = 2
    /\ pe_call.result.avg_fill_price
           = Some((115 * Cent) \div 2
                    + MulFrac((115 * Cent) \div 2, MARKET_ORDER_SLIPPAGE_BPS))

\* C14.  After every paper-executor operation the state store holds no
\* order in a terminal state: no stored order has status Filled, Cancelled
\* or Rejected.
C14_NoTerminalOrderInStore ==
    \A i \in OrderIds :
        IsSome(orders[i])
            => Unwrap(orders[i]).status \notin {"Filled", "Cancelled", "Rejected"}

\* The resting orders of the executor pex on a market.
RestingOn(pex, slug) ==
    { i \in OrderIds : /\ IsSome(pex.resting_orders[i])
                       /\ Unwrap(pex.resting_orders[i]).market_slug = slug }

Cancelled == Executed /\ is_cancel(pe_call.signal)

\* C10.  A CancelAll on slug s removes every resting order on s (from the
\* resting set and from the store's orders) and nothing else: resting
\* orders on other slugs, the balance, the positions and the rest of the
\* executor are as before; a second CancelAll on s right after the first
\* changes no state at all.
C10_CancelAllRemovesOnlyThatMarket ==
    Cancelled
        => LET s    == pe_call.signal.market_slug
               b    == pe_call.before
               gone == RestingOn(b.pe, s)
           IN  /\ RestingOn(pe, s) = {}
               /\ \A i \in OrderIds \ gone :
                      /\ pe.resting_orders[i] = b.pe.resting_orders[i]
                      /\ orders[i] = b.orders[i]
               /\ \A i \in gone : orders[i] = None
               /\ balance = b.balance
               /\ positions = b.positions
               /\ [ pe EXCEPT !.resting_orders = b.pe.resting_orders ] = b.pe
               /\ (/\ pe_call.prev.op = "execute_signal"
                   /\ is_cancel(pe_call.prev.signal)
                   /\ pe_call.prev.signal.market_slug = s)
                      => World = b

\* C10 witness: a second CancelAll on a market right after a first one that
\* removed a resting order, while an order rests on the other market.
C10_Witness ==
    /\ Cancelled
    /\ pe_call.prev.op = "execute_signal"
    /\ is_cancel(pe_call.prev.signal)
    /\ pe_call.prev.signal.market_slug = pe_call.signal.market_slug
    /\ RestingOn(pe_call.prev.before.pe, pe_call.signal.market_slug) # {}
    /\ \E s \in Slugs \ {pe_call.signal.market_slug} : RestingOn(pe, s) # {}

-----------------------------------------------------------------------------
(* Specification MakerSpec: the market maker behind the strategy engine,   *)
(* the risk manager and the paper executor, driven by the tick of main.    *)
(* The feed writes market rows, the clock advances, and the strategy is    *)
(* called directly (on_market_update, check_stop_loss) or through          *)
(* StrategyEngine::on_market_update with the dispatch of what it approved. *)
(* Money is counted in millionths of a dollar, time in milliseconds.       *)

\* A price given in tenths of a cent.
Mills(m) == m * (Dollar \div 1000)

\* The account of the run: $10.
MakerBalance == 10 * Dollar

\* RiskConfig of the run: $20 per market, portfolio and correlation group,
\* 80% of equity, five positions, $5 daily loss, 10% drawdown, 5% drawdown
\* gate for new buys, $1 minimum trade, quarter Kelly, 2% edge.
MakerRiskConfig ==
    [ kelly_fraction             |-> 25,
      min_edge                   |-> 2,
      max_position_per_market    |-> 20 * Dollar,
      max_portfolio_exposure     |-> 20 * Dollar,
      max_portfolio_exposure_pct |-> 80,
      max_correlated_exposure    |-> 20 * Dollar,
      max_positions              |-> 5,
      max_daily_loss             |-> 5 * Dollar,
      max_drawdown_pct           |-> 10,
      max_total_pnl_drawdown_pct_for_new_buys |-> 5,
      min_trade_size             |-> Dollar ]

\* Rows the feed writes: (slug, YES bid, YES ask) in tenths of a cent.  The
\* rows of mkt-a: 0.48/0.52, the market eight cents lower, a bid of half a
\* cent, and an ask of 1.00; mkt-b has the one row 0.60/0.64.
MakerMarkets ==
    { <<"mkt-a", 480, 520>>, <<"mkt-a", 400, 440>>, <<"mkt-a", 5, 100>>,
      <<"mkt-a", 900, 1000>>, <<"mkt-b", 600, 640>> }

\* How long the clock runs, and the steps by which it advances: to half a
\* second before the end of a cooldown that started at 0, or to its end.
MaxClock == 60000

ClockSteps == {59500, 60000}

MakerPosition(slug, side, quantity, created_at) ==
    [ market_slug |-> slug, side |-> side, quantity |-> quantity,
      avg_price |-> Mills(500), created_at |-> created_at ]

\* Positions handed to the strategy, all bought at 0.50.  On mkt-a: ten
\* YES contracts bought now, a hundred YES contracts bought ten minutes
\* before the clock started, a hundred NO contracts bought now.  On mkt-b:
\* ten NO contracts bought now.
MakerPositions(slug) ==
    IF slug = "mkt-a"
    THEN { MakerPosition(slug, "YES", 10, 0), MakerPosition(slug, "YES", 100, -600000),
           MakerPosition(slug, "NO", 100, 0) }
    ELSE { MakerPosition(slug, "NO", 10, 0) }

\* The MarketState of a slug as the store holds it.
MarketStateOf(slug) ==
    [ market_slug |-> slug,
      yes_bid |-> Unwrap(markets[slug]).yes_bid,
      yes_ask |-> Unwrap(markets[slug]).yes_ask ]

MInit ==
    /\ balance   = MakerBalance
    /\ markets   = [ s \in Slugs |-> None ]
    /\ positions = [ k \in PosKeys |-> None ]
    /\ orders    = [ i \in OrderIds |-> None ]
    /\ rm        = RiskManagerNew(MakerRiskConfig, MakerBalance,
                                  [ k \in PosKeys |-> None ], [ s \in Slugs |-> None ])
    /\ risk_call = NoCall
    /\ BreakerIdle
    /\ orderbook = OrderBookTrackerNew
    /\ pe        = PaperExecutorNew(MakerBalance)
    /\ pe_call   = NoCall
    /\ ob_writer = None
    /\ ob_call   = NoCall
    /\ req       = NoCall
    /\ feed      = NoCall
    /\ sys       = NoCall
    /\ la        = NoCall
    /\ le        = NoCall
    /\ mm        = [ strategy |-> MarketMakerStrategyNew(MarketMakerConfigDefault),
                     now |-> 0, op |-> "new" ]

\* StateManager::update_market, called by the feed
FeedMarket ==
    \E w \in MakerMarkets :
        /\ markets' = [ markets EXCEPT ![w[1]] =
                          Some([ yes_bid |-> Some(Mills(w[2])),
                                 yes_ask |-> Some(Mills(w[3])),
                                 no_bid  |-> None, no_ask |-> None ]) ]
        /\ mm' = [ strategy |-> mm.strategy, now |-> mm.now, op |-> "feed" ]
        /\ UNCHANGED <<balance, positions, orders, riskVars, breakerVars, paperVars,
                       trackerVars, req, feed, sys, la, le>>

\* Time passes.
AdvanceClock ==
    \E step \in ClockSteps :
        /\ mm.now + step <= MaxClock
        /\ mm' = [ strategy |-> mm.strategy, now |-> mm.now + step, op |-> "clock" ]
        /\ UNCHANGED <<stateVars, riskVars, breakerVars, paperVars, trackerVars,
                       req, feed, sys, la, le>>

\* MarketMakerStrategy::on_market_update
OnMarketUpdate ==
    \E slug \in Slugs :
        /\ IsSome(markets[slug])
        /\ \E position \in { None } \cup { Some(p) : p \in MakerPositions(slug) } :
             \E r \in { on_market_update(mm.strategy, MarketStateOf(slug), position,
                                         mm.now) } :
                 mm' = [ strategy |-> r.mm, now |-> mm.now, op |-> "on_market_update",
                         slug |-> slug, position |-> position,
                         signals |-> r.signals, quote_before |-> mm.strategy.quotes[slug] ]
        /\ UNCHANGED <<stateVars, riskVars, breakerVars, paperVars, trackerVars,
                       req, feed, sys, la, le>>

\* MarketMakerStrategy::check_stop_loss
CheckStopLoss ==
    \E slug \in Slugs :
        /\ IsSome(markets[slug])
        /\ \E position \in MakerPositions(slug) :
             \E r \in { check_stop_loss(mm.strategy, position, MarketStateOf(slug),
                                        mm.now) } :
                 mm' = [ strategy |-> r.mm, now |-> mm.now, op |-> "check_stop_loss",
                         slug |-> slug, position |-> Some(position),
                         signals |-> r.signals, quote_before |-> mm.strategy.quotes[slug] ]
        /\ UNCHANGED <<stateVars, riskVars, breakerVars, paperVars, trackerVars,
                       req, feed, sys, la, le>>

\* The position the engine reads with state.get_position.  The store of
\* the model keeps no created_at: a stored position counts as created
\* when the clock started.
StorePosition(slug) ==
    LET side == IF IsSome(positions[position_key(slug, "YES")]) THEN "YES" ELSE "NO"
        p    == get_position(positions, slug)
    IN  IF IsSome(p)
        THEN Some([ market_slug |-> slug, side |-> side,
                    quantity |-> Unwrap(p).quantity,
                    avg_price |-> Unwrap(p).avg_price, created_at |-> 0 ])
        ELSE None

\* The orders resting in the executor pex on a market.
RestingIds(pex, slug) ==
    { i \in OrderIds : /\ IsSome(pex.resting_orders[i])
                       /\ Unwrap(pex.resting_orders[i]).market_slug = slug }

\* One turn of the market loop in the tick of main, in paper mode: skip a
\* market without valid prices, run engine.on_market_update, execute what
\* it approved.  A turn that would hand out more than MaxOrders order ids
\* is not taken.
TickMarket ==
    \E slug \in Slugs :
        /\ IsSome(markets[slug])
        /\ has_valid_prices(MarketStateOf(slug))
        /\ \E e \in { engine_on_market_update(mm.strategy, rm, MarketStateOf(slug),
                                               StorePosition(slug), mm.now) } :
             \E d \in { dispatch_each(e.output.approved_signals, World, << >>) } :
                 /\ d.w.pe.next_order_id <= MaxOrders + 1
                 /\ balance'   = d.w.balance
                 /\ positions' = d.w.positions
                 /\ orders'    = d.w.orders
                 /\ pe'        = d.w.pe
                 /\ rm'        = e.output.rm
                 /\ mm' = [ strategy |-> e.mm, now |-> mm.now, op |-> "tick",
                            slug |-> slug, position |-> StorePosition(slug),
                            signals |-> e.signals, stop_signals |-> e.stop_signals,
                            quote_before |-> mm.strategy.quotes[slug],
                            approved |-> e.output.approved_signals,
                            executions |-> d.executions,
                            resting_before |-> RestingIds(pe, slug) ]
        /\ UNCHANGED <<markets, risk_call, breakerVars, orderbook, pe_call,
                       trackerVars, req, feed, sys, la, le>>

\* The strategy called directly.
MNext ==
    \/ FeedMarket
    \/ AdvanceClock
    \/ OnMarketUpdate
    \/ CheckStopLoss

MakerSpec == MInit /\ [][MNext]_vars

\* The strategy called by the tick of main.
ENext ==
    \/ FeedMarket
    \/ AdvanceClock
    \/ TickMarket

EngineSpec == MInit /\ [][ENext]_vars

-----------------------------------------------------------------------------
(* Market maker claims (MakerSpec, EngineSpec)                             *)

StopChecked == mm.op = "check_stop_loss"

\* The exit trigger of a position in a market at a time: the close price is
\* the YES bid for a YES position and one minus the YES ask for a NO
\* position; a loss of aggressive_stop_loss_pct or stop_loss_pct of the
\* entry price, or any loss once the position is
\* max_underwater_hold_seconds old.
ExitTriggered(position, market, now) ==
    LET config == mm.strategy.config
        close  == IF position.side = "YES" THEN Unwrap(market.yes_bid)
                  ELSE Dollar - Unwrap(market.yes_ask)
        pnl    == close - position.avg_price
    IN  \/ 100 * pnl <= -(config.aggressive_stop_loss_pct * position.avg_price)
        \/ 100 * pnl <= -(config.stop_loss_pct * position.avg_price)
        \/ /\ now - position.created_at >= 1000 * config.max_underwater_hold_seconds
           /\ pnl < 0

\* The sell of the held side.
SellOf(side) == IF side = "YES" THEN "SellYes" ELSE "SellNo"

\* C27.  When a held position (YES or NO) hits a stop-loss or time-exit
\* trigger, check_stop_loss emits exactly one signal, a High-urgency sell
\* of the held side for the whole position quantity, and records the slug
\* in the cooldown map at the time of the call.
C27_TriggeredExitSellsHeldSide ==
    (StopChecked /\ ExitTriggered(Unwrap(mm.position), MarketStateOf(mm.slug), mm.now))
        => /\ Len(mm.signals) = 1
           /\ mm.signals[1].urgency = "High"
           /\ mm.signals[1].market_slug = mm.slug
           /\ mm.signals[1].action = SellOf(Unwrap(mm.position).side)
           /\ mm.signals[1].quantity = Unwrap(mm.position).quantity
           /\ mm.strategy.stop_loss_cooldowns[mm.slug] = Some(mm.now)

MakerUpdated == mm.op = "on_market_update"

\* The last stop-loss exit of the updated market is less than
\* stop_loss_cooldown_secs old.
WithinCooldown ==
    /\ IsSome(mm.strategy.stop_loss_cooldowns[mm.slug])
    /\ LET t == Unwrap(mm.strategy.stop_loss_cooldowns[mm.slug])
       IN  /\ t <= mm.now
           /\ mm.now < t + 1000 * mm.strategy.config.stop_loss_cooldown_secs

\* C28.  After a stop-loss exit for a slug at time t, every on_market_update
\* for that slug at a time t' with t <= t' < t + stop_loss_cooldown_secs
\* returns no signals: quoting resumes only once the cooldown has elapsed.
C28_NoSignalsWithinCooldown ==
    (MakerUpdated /\ WithinCooldown) => mm.signals = << >>

\* C28 witness: an update of a market with valid prices and a mid in range,
\* 59.5 seconds after its stop-loss exit, returned nothing.
C28_Witness ==
    /\ MakerUpdated /\ WithinCooldown
    /\ mm.now - Unwrap(mm.strategy.stop_loss_cooldowns[mm.slug]) = 59500
    /\ has_valid_prices(MarketStateOf(mm.slug))
    /\ Unwrap(yes_mid_price(MarketStateOf(mm.slug))) >= mm.strategy.config.min_mid_price
    /\ Unwrap(yes_mid_price(MarketStateOf(mm.slug))) <= mm.strategy.config.max_mid_price
    /\ mm.signals = << >>

\* The prices of the bids and of the asks among the signals of the call.
EmittedBids == { mm.signals[i].price : i \in { j \in DOMAIN mm.signals :
                                                 mm.signals[j].action = "BuyYes" } }

EmittedAsks == { mm.signals[i].price : i \in { j \in DOMAIN mm.signals :
                                                 mm.signals[j].action = "SellYes" } }

\* Every emitted bid and ask is in [0.01, 0.99], and a bid is below the ask
\* emitted with it.
QuotesInRange ==
    /\ \A b \in EmittedBids : Mills(10) <= b /\ b <= Mills(990)
    /\ \A a \in EmittedAsks : Mills(10) <= a /\ a <= Mills(990)
    /\ \A b \in EmittedBids : \A a \in EmittedAsks : b < a

\* C30.  Every bid/ask pair the market maker emits satisfies
\* 0.01 <= bid < ask <= 0.99 and, when maker_only is set,
\* bid <= market.yes_bid and ask >= market.yes_ask.
C30_QuotesInsideRangeOutsideMarket ==
    MakerUpdated
        => /\ QuotesInRange
           /\ mm.strategy.config.maker_only
                 => /\ \A b \in EmittedBids : b <= Unwrap(MarketStateOf(mm.slug).yes_bid)
                    /\ \A a \in EmittedAsks : a >= Unwrap(MarketStateOf(mm.slug).yes_ask)

\* C30, amended.  Every bid/ask pair the market maker emits satisfies
\* 0.01 <= bid < ask <= 0.99 and, when maker_only is set,
\* bid <= max(market.yes_bid, 0.01) and ask >= min(market.yes_ask, 0.99).
C30_QuotesInsideRangeOutsideClampedMarket ==
    MakerUpdated
        => /\ QuotesInRange
           /\ mm.strategy.config.maker_only
                 => /\ \A b \in EmittedBids :
                           b <= Max(Unwrap(MarketStateOf(mm.slug).yes_bid), Mills(10))
                    /\ \A a \in EmittedAsks :
                           a >= Min(Unwrap(MarketStateOf(mm.slug).yes_ask), Mills(990))

\* C30 witness: a bid and an ask emitted on a market whose bid is below
\* 0.01, the bid at 0.01.
C30_Witness ==
    /\ MakerUpdated
    /\ Unwrap(MarketStateOf(mm.slug).yes_bid) < Mills(10)
    /\ EmittedBids = { Mills(10) }
    /\ EmittedAsks # {}

Ticked == mm.op = "tick"

\* The tick refreshed a market that had an active quote.
RefreshedActive ==
    /\ Ticked
    /\ IsSome(mm.quote_before)
    /\ \/ IsSome(Unwrap(mm.quote_before).bid_price)
       \/ IsSome(Unwrap(mm.quote_before).ask_price)
    /\ mm.signals # << >>

IsRefreshCancel(signal) ==
    signal.action = "CancelAll" /\ signal.market_slug = mm.slug

IsRefreshQuote(signal) ==
    /\ signal.action \in {"BuyYes", "SellYes"}
    /\ signal.market_slug = mm.slug
    /\ signal.urgency = "Low"

\* In the sequence, every CancelAll of the refresh is before every quote.
CancelBeforeQuotes(signals) ==
    \A i, j \in DOMAIN signals :
        (IsRefreshCancel(signals[i]) /\ IsRefreshQuote(signals[j])) => i < j

\* C29.  When the market maker refreshes a slug that has an active quote,
\* it emits the CancelAll for the slug first, before the new BuyYes and
\* SellYes; the order is the same among the signals the engine approved
\* and among those executed, and every new quote the executor left resting
\* is still resting when the refresh has been executed.
C29_CancelAllBeforeNewQuotes ==
    RefreshedActive
        => /\ IsRefreshCancel(mm.signals[1])
           /\ \A i \in 2..Len(mm.signals) : IsRefreshQuote(mm.signals[i])
           /\ CancelBeforeQuotes(mm.approved)
           /\ CancelBeforeQuotes([ i \in DOMAIN mm.executions |->
                                     mm.executions[i].signal ])
           /\ \A i \in DOMAIN mm.executions :
                  (/\ IsRefreshQuote(mm.executions[i].signal)
                   /\ mm.executions[i].result.status \in {"Open", "PartiallyFilled"})
                      => IsSome(pe.resting_orders[mm.executions[i].result.order_id])

\* C29 witness: a refresh of a market on which an order rested; its
\* CancelAll and its new bid were approved and executed, and the new bid
\* rests.
C29_Witness ==
    /\ RefreshedActive
    /\ mm.resting_before # {}
    /\ \E i, j \in DOMAIN mm.executions :
           /\ i < j
           /\ IsRefreshCancel(mm.executions[i].signal)
           /\ mm.executions[j].signal.action = "BuyYes"
           /\ mm.executions[j].result.status = "Open"
           /\ RestingIds(pe, mm.slug) = { mm.executions[j].result.order_id }

\* The quotes among the signals of the call.
EmittedQuotes ==
    { mm.signals[i] : i \in { j \in DOMAIN mm.signals :
                                mm.signals[j].action \in {"BuyYes", "SellYes"} } }

\* C31.  Every quote quantity the market maker computes for a price in
\* [0.01, 0.99] gives a notional price x quantity of at least $1
\* (min_trade_size) and is at most max_contracts_per_order.
C31_QuoteNotionalAtLeastOneDollar ==
    MakerUpdated
        => \A q \in EmittedQuotes :
               (Mills(10) <= q.price /\ q.price <= Mills(990))
                   => /\ q.price * q.quantity >= Dollar
                      /\ q.quantity <= mm.strategy.config.max_contracts_per_order

-----------------------------------------------------------------------------
(* LiveArbitrageStrategy  (strategies/live_arbitrage.rs)                   *)
(* Prices and probabilities are carried in hundredths, as in Spec; a time  *)
(* is a count of milliseconds.                                             *)

\* LiveArbitrageConfig::default
LiveArbitrageConfigDefault ==
    [ min_edge         |-> 3,
      order_size       |-> 1000,
      lead_multiplier  |-> 2,
      max_prob_shift   |-> 25,
      cooldown_seconds |-> 5,
      enabled_markets  |-> {} ]

Events == {"ev-1", "ev-2"}

\* LiveArbitrageStrategy::new
LiveArbitrageStrategyNew(config) ==
    [ config         |-> config,
      enabled        |-> TRUE,
      latest_states  |-> [ e \in Events |-> None ],
      last_signal_at |-> [ s \in Slugs |-> None ] ]

\* GameState::score_diff
score_diff(state) == state.home_score - state.away_score

\* LiveArbitrageStrategy::ingest_game_state
ingest_game_state(strategy, state) ==
    [ strategy EXCEPT !.latest_states[state.event_id] = Some(state) ]

\* LiveArbitrageStrategy::estimate_yes_probability
estimate_yes_probability(strategy, state) ==
    LET lead  == Abs(score_diff(state))
        shift == Min(strategy.config.max_prob_shift,
                     strategy.config.lead_multiplier * lead)
        prob0 == IF score_diff(state) >= 0 THEN 50 + shift ELSE 50 - shift
        prob  == IF ~state.home_is_yes THEN 100 - prob0 ELSE prob0
    IN  Min(Max(prob, 5), 95)

\* LiveArbitrageStrategy::calculate_quantity
arb_calculate_quantity(strategy, price) ==
    IF price <= 0 THEN 0
    ELSE Max(strategy.config.order_size \div price, 0)

\* clamp_price of live_arbitrage.rs
arb_clamp_price(price) == Min(Max(price, 1), 99)

\* LiveArbitrageStrategy::is_market_enabled: an empty list enables every
\* market, else a slug that contains one of the patterns; the patterns of
\* the model are whole slugs.
arb_is_market_enabled(strategy, slug) ==
    \/ strategy.config.enabled_markets = {}
    \/ slug \in strategy.config.enabled_markets

\* A signal of generate_signal.
ArbSignal(slug, action, price, quantity, state, fair) ==
    [ market_slug |-> slug, action |-> action, price |-> price,
      quantity |-> quantity, urgency |-> "High",
      confidence |-> Min(55 + 5 * Abs(score_diff(state)), 90),
      true_probability |-> Some(fair) ]

\* LiveArbitrageStrategy::generate_signal: Option<Signal>
generate_signal(strategy, market, state) ==
    IF ~IsSome(market.yes_ask) /\ ~IsSome(market.no_ask) THEN None
    ELSE
      LET fair_yes == estimate_yes_probability(strategy, state)
          yes_edge == fair_yes - Unwrap(market.yes_ask)
          yes_price == arb_clamp_price(Unwrap(market.yes_ask))
          yes_taken == /\ IsSome(market.yes_ask)
                       /\ yes_edge >= strategy.config.min_edge /\ yes_edge > 0
                       /\ arb_calculate_quantity(strategy, yes_price) > 0
          best_edge == IF yes_taken THEN yes_edge ELSE 0
          no_ask   == IF IsSome(market.no_ask) THEN market.no_ask
                      ELSE IF IsSome(market.yes_bid)
                      THEN Some(100 - Unwrap(market.yes_bid)) ELSE None
          fair_no  == 100 - fair_yes
          no_edge  == fair_no - Unwrap(no_ask)
          no_price == arb_clamp_price(Unwrap(no_ask))
          no_taken == /\ IsSome(no_ask)
                      /\ no_edge >= strategy.config.min_edge /\ no_edge > best_edge
                      /\ arb_calculate_quantity(strategy, no_price) > 0
      IN  IF no_taken
          THEN Some(ArbSignal(market.market_slug, "BuyNo", no_price,
                              arb_calculate_quantity(strategy, no_price), state, fair_no))
          ELSE IF yes_taken
          THEN Some(ArbSignal(market.market_slug, "BuyYes", yes_price,
                              arb_calculate_quantity(strategy, yes_price), state, fair_yes))
          ELSE None

\* A cooldown check that never skips.
arb_in_cooldown_never(elapsed_ms, cooldown_seconds) == FALSE

\* elapsed < self.config.cooldown_seconds, with elapsed the milliseconds
\* divided by 1000.0
arb_in_cooldown(elapsed_ms, cooldown_seconds) == elapsed_ms < 1000 * cooldown_seconds

\* The body of the loop of on_tick for one game state.  acc holds the
\* strategy, the signals pushed so far and, for each, the event it came
\* from.
arb_tick_state(acc, state, mkts, now) ==
    LET strategy == acc.la
        slug     == Unwrap(state.market_slug)
    IN  IF state.is_final THEN acc
        ELSE IF ~IsSome(state.market_slug) THEN acc
        ELSE IF ~arb_is_market_enabled(strategy, slug) THEN acc
        ELSE IF /\ IsSome(strategy.last_signal_at[slug])
                /\ arb_in_cooldown(now - Unwrap(strategy.last_signal_at[slug]),
                                   strategy.config.cooldown_seconds)
             THEN acc
        ELSE IF ~IsSome(mkts[slug]) THEN acc
        ELSE CHOOSE out \in
               { IF IsSome(signal)
                 THEN [ la |-> [ strategy EXCEPT !.last_signal_at[slug] = Some(now) ],
                        signals |-> Append(acc.signals, Unwrap(signal)),
                        events  |-> Append(acc.events, state.event_id) ]
                 ELSE acc
                 : signal \in
                     { generate_signal(strategy,
                                       [ market_slug |-> slug,
                                         yes_bid |-> Unwrap(mkts[slug]).yes_bid,
                                         yes_ask |-> Unwrap(mkts[slug]).yes_ask,
                                         no_ask  |-> Unwrap(mkts[slug]).no_ask ],
                                       state) } } : TRUE

RECURSIVE arb_tick_loop(_, _, _, _)
arb_tick_loop(acc, states, mkts, now) ==
    IF states = << >> THEN acc
    ELSE CHOOSE out \in
           { arb_tick_loop(next, Tail(states), mkts, now)
             : next \in { arb_tick_state(acc, Head(states), mkts, now) } } : TRUE

\* LiveArbitrageStrategy::on_tick; states is latest_states.values() in the
\* order the HashMap yields them.
arb_on_tick(strategy, states, mkts, now) ==
    IF ~strategy.enabled
    THEN [ la |-> strategy, signals |-> << >>, events |-> << >> ]
    ELSE arb_tick_loop([ la |-> strategy, signals |-> << >>, events |-> << >> ],
                       states, mkts, now)

-----------------------------------------------------------------------------
(* Specification ArbSpec: game states are ingested, the feed writes the    *)
(* market row of Spec, the clock advances and the engine ticks the         *)
(* live-arbitrage strategy.                                                *)

\* Game states the scores feed delivers: both events are games of mkt-a,
\* ev-2 may also come without a market; the home side, which is YES, leads
\* by three or the game is level; a snapshot is final or not.
GameStates ==
    { [ event_id |-> e, market_slug |-> ms, home_score |-> h, away_score |-> 0,
        home_is_yes |-> TRUE, is_final |-> f ] :
          e \in Events, ms \in { Some("mkt-a"), None }, h \in {0, 3}, f \in BOOLEAN }
      \ { g \in [ event_id : Events, market_slug : { None }, home_score : {0, 3},
                  away_score : {0}, home_is_yes : {TRUE}, is_final : BOOLEAN ] :
              g.event_id = "ev-1" \/ g.home_score = 0 \/ g.is_final }

\* How long the clock runs, and the steps by which it advances: to one
\* millisecond before the end of a cooldown, or to its end.
ArbMaxClock == 10000

ArbClockSteps == {4999, 5000}

AInit ==
    /\ StateInit /\ RiskInit /\ BreakerIdle /\ PaperIdle
    /\ ob_writer = None
    /\ ob_call   = NoCall
    /\ req       = NoCall
    /\ feed      = NoCall
    /\ sys       = NoCall
    /\ mm        = NoCall
    /\ le        = NoCall
    /\ la        = [ strategy |-> LiveArbitrageStrategyNew(LiveArbitrageConfigDefault),
                     now |-> 0, op |-> "new",
                     emitted_at |-> [ s \in Slugs |-> None ] ]

\* LiveArbitrageStrategy::ingest_game_state
IngestGameState ==
    \E state \in GameStates :
        /\ la' = [ strategy |-> ingest_game_state(la.strategy, state),
                   now |-> la.now, op |-> "ingest_game_state",
                   emitted_at |-> la.emitted_at ]
        /\ UNCHANGED <<stateVars, riskVars, breakerVars, paperVars, trackerVars,
                       req, feed, sys, mm, le>>

\* Time passes.
ArbAdvanceClock ==
    \E step \in ArbClockSteps :
        /\ la.now + step <= ArbMaxClock
        /\ la' = [ strategy |-> la.strategy, now |-> la.now + step, op |-> "clock",
                   emitted_at |-> la.emitted_at ]
        /\ UNCHANGED <<stateVars, riskVars, breakerVars, paperVars, trackerVars,
                       req, feed, sys, mm, le>>

\* LiveArbitrageStrategy::on_tick, called by StrategyEngine::on_tick with
\* state.get_market.  emitted_before is, for each market, the time of the
\* last signal emitted for it before this call, and emitted_at that time
\* after it.
ArbOnTick ==
    \E order \in KeyOrders({ e \in Events : IsSome(la.strategy.latest_states[e]) }) :
        \E r \in { arb_on_tick(la.strategy,
                               [ i \in DOMAIN order |->
                                   Unwrap(la.strategy.latest_states[order[i]]) ],
                               markets, la.now) } :
            /\ la' = [ strategy |-> r.la, now |-> la.now, op |-> "on_tick",
                       signals |-> r.signals, events |-> r.events,
                       emitted_before |-> la.emitted_at,
                       emitted_at |-> [ s \in Slugs |->
                           IF \E i \in DOMAIN r.signals : r.signals[i].market_slug = s
                           THEN Some(la.now) ELSE la.emitted_at[s] ] ]
            /\ UNCHANGED <<stateVars, riskVars, breakerVars, paperVars, trackerVars,
                           req, feed, sys, mm, le>>

ANext ==
    \/ UpdateMarket
    \/ IngestGameState
    \/ ArbAdvanceClock
    \/ ArbOnTick

ArbSpec == AInit /\ [][ANext]_vars

\* The tick of the live-arbitrage strategy has returned.
ArbTicked == la.op = "on_tick"

\* C32.  For each market slug the live-arbitrage strategy emits at most one
\* signal within any cooldown_seconds window, even when several game
\* snapshots map to the slug in one tick, and it never emits a signal for
\* a game whose latest snapshot is final.
C32_OneSignalPerCooldownNoneForFinals ==
    ArbTicked
        => /\ \A s \in Slugs :
                  /\ Cardinality({ i \in DOMAIN la.signals :
                                     la.signals[i].market_slug = s }) <= 1
                  /\ (/\ \E i \in DOMAIN la.signals : la.signals[i].market_slug = s
                      /\ IsSome(la.emitted_before[s]))
                         => la.now - Unwrap(la.emitted_before[s])
                                >= 1000 * la.strategy.config.cooldown_seconds
           /\ \A i \in DOMAIN la.events :
                  ~Unwrap(la.strategy.latest_states[la.events[i]]).is_final

\* C32 witness: two games of one market that are not final and both lead
\* to an edge, ticked when the market's last signal is a cooldown old: one
\* signal.
C32_Witness ==
    /\ ArbTicked
    /\ Len(la.signals) = 1
    /\ IsSome(la.emitted_before["mkt-a"])
    /\ \A e \in Events :
           /\ IsSome(la.strategy.latest_states[e])
           /\ LET g == Unwrap(la.strategy.latest_states[e])
              IN  /\ ~g.is_final
                  /\ g.market_slug = Some("mkt-a")
                  /\ g.home_score = 3

-----------------------------------------------------------------------------
(* LiveExecutor  (execution/executor.rs)                                   *)
(* The executor works on the state store (balance, positions, orders) and  *)
(* keeps order_market; the venue behind the API client holds a balance,    *)
(* positions and open orders of its own.  Money is in cents, as in Spec.   *)

\* OrderStatus::is_open
status_is_open(status) == status \in {"Pending", "Open", "PartiallyFilled"}

\* The status of an open order of the venue, as reconcile_state reads it.
venue_status(status) ==
    CASE status = "PENDING"          -> "Pending"
      [] status = "OPEN"             -> "Open"
      [] status = "PARTIALLY_FILLED" -> "PartiallyFilled"
      [] OTHER                       -> "Open"

\* The intent of an open order of the venue, as reconcile_state reads it.
venue_intent(intent) ==
    CASE intent = "ORDER_INTENT_BUY_LONG"   -> "BuyLong"
      [] intent = "ORDER_INTENT_SELL_LONG"  -> "SellLong"
      [] intent = "ORDER_INTENT_BUY_SHORT"  -> "BuyShort"
      [] intent = "ORDER_INTENT_SELL_SHORT" -> "SellShort"
      [] OTHER                              -> "BuyLong"

\* The intent of an order as the venue reports it.
intent_string(intent) ==
    CASE intent = "BuyLong"   -> "ORDER_INTENT_BUY_LONG"
      [] intent = "SellLong"  -> "ORDER_INTENT_SELL_LONG"
      [] intent = "BuyShort"  -> "ORDER_INTENT_BUY_SHORT"
      [] intent = "SellShort" -> "ORDER_INTENT_SELL_SHORT"

\* LiveExecutor::new
LiveExecutorNew ==
    [ order_market |-> [ i \in OrderIds |-> None ] ]

\* The balance step of reconcile_state; result is what get_balance
\* returned, None for an Err.
reconcile_balance(bal, result) ==
    IF IsSome(result) THEN Unwrap(result) ELSE bal

\* The positions step of reconcile_state: one update_position for each
\* position of the answer; result is None for an Err.
RECURSIVE reconcile_positions_each(_, _)
reconcile_positions_each(pos, reported) ==
    IF reported = << >> THEN pos
    ELSE reconcile_positions_each(
             update_position(pos, Head(reported).market_slug, Head(reported).side,
                             Head(reported).quantity, Head(reported).avg_price),
             Tail(reported))

reconcile_positions(pos, result) ==
    IF IsSome(result) THEN reconcile_positions_each(pos, Unwrap(result)) ELSE pos

\* The loop of reconcile_state over the open orders of the answer: the
\* order is tracked under its market unless it is tracked already, and
\* written to the store.
RECURSIVE reconcile_open_each(_, _, _)
reconcile_open_each(order_market, ords, reported) ==
    IF reported = << >> THEN [ order_market |-> order_market, orders |-> ords ]
    ELSE LET o == Head(reported)
         IN  reconcile_open_each(
                 IF IsSome(order_market[o.order_id]) THEN order_market
                 ELSE [ order_market EXCEPT ![o.order_id] = Some(o.market_slug) ],
                 add_order(ords,
                           [ order_id        |-> o.order_id,
                             market_slug     |-> o.market_slug,
                             intent          |-> venue_intent(o.intent),
                             price           |-> IF IsSome(o.price) THEN Unwrap(o.price) ELSE 0,
                             quantity        |-> o.quantity,
                             filled_quantity |-> o.filled_quantity,
                             status          |-> venue_status(o.status) ]),
                 Tail(reported))

\* The clean-up loop of reconcile_state over the tracked ids.
RECURSIVE reconcile_cleanup(_, _, _)
reconcile_cleanup(ords, tracked, open_ids) ==
    IF tracked = << >> THEN ords
    ELSE LET id == Head(tracked)
         IN  reconcile_cleanup(
                 IF /\ id \notin open_ids
                    /\ IsSome(ords[id])
                    /\ status_is_open(Unwrap(ords[id]).status)
                 THEN remove_order(update_order(ords, id, Some("Filled"), None), id)
                 ELSE ords,
                 Tail(tracked), open_ids)

\* The open-orders step of reconcile_state; result is None for an Err.
reconcile_orders(order_market, ords, result) ==
    IF ~IsSome(result) THEN [ order_market |-> order_market, orders |-> ords ]
    ELSE LET reported == Unwrap(result)
             open_ids == { reported[i].order_id : i \in DOMAIN reported }
             r        == reconcile_open_each(order_market, ords, reported)
             tracked  == CHOOSE t \in KeyOrders({ i \in OrderIds :
                                                    IsSome(r.order_market[i]) }) : TRUE
         IN  [ order_market |-> r.order_market,
               orders       |-> reconcile_cleanup(r.orders, tracked, open_ids) ]

\* StateManager::get_open_orders(Some(market_slug)), as ids
get_open_orders(ords, slug) ==
    { i \in OrderIds : /\ IsSome(ords[i])
                       /\ Unwrap(ords[i]).market_slug = slug
                       /\ status_is_open(Unwrap(ords[i]).status) }

\* LiveExecutor::cancel_all after cancel_all_orders succeeded: each open
\* order of the market is marked Cancelled and removed from the store.
live_cancel_all(ords, slug) ==
    [ i \in OrderIds |-> IF i \in get_open_orders(ords, slug) THEN None ELSE ords[i] ]

-----------------------------------------------------------------------------
(* Specification LiveSpec: the live executor places and cancels orders and *)
(* reconciles with a venue whose balance, positions and orders move on     *)
(* their own.                                                              *)

\* Balances of the account at the venue.
VenueBalances == {InitialBalance, 95000}

\* Positions the venue opens and closes: (slug, side, quantity, avg_price).
VenuePositionWrites ==
    { <<"mkt-a", "YES", 10, 50>>, <<"mkt-a", "YES", 0, 50>>,
      <<"mkt-b", "NO", 20, 40>> }

\* Signals handed to the live executor.
LiveSignals ==
    { [ market_slug |-> "mkt-a", action |-> "BuyYes", price |-> 50, quantity |-> 10 ],
      [ market_slug |-> "mkt-a", action |-> "CancelAll", price |-> 0, quantity |-> 0 ] }

\* The venue before any trading.
VenueNew ==
    [ balance   |-> InitialBalance,
      positions |-> [ k \in PosKeys |-> None ],
      orders    |-> [ i \in OrderIds |-> None ],
      next_id   |-> 1 ]

\* The answer of get_positions: the positions of the venue, one record
\* each.
venue_positions(venue) ==
    LET keys == CHOOSE t \in KeyOrders({ k \in PosKeys : IsSome(venue.positions[k]) }) : TRUE
    IN  [ i \in DOMAIN keys |->
            [ market_slug |-> keys[i][1], side |-> keys[i][2],
              quantity    |-> Unwrap(venue.positions[keys[i]]).quantity,
              avg_price   |-> Unwrap(venue.positions[keys[i]]).avg_price ] ]

\* The answer of get_open_orders(None): the open orders of the venue.
venue_open_orders(venue) ==
    LET ids == CHOOSE t \in KeyOrders({ i \in OrderIds : IsSome(venue.orders[i]) }) : TRUE
    IN  [ i \in DOMAIN ids |-> Unwrap(venue.orders[ids[i]]) ]

LInit ==
    /\ StateInit /\ RiskInit /\ BreakerIdle /\ PaperIdle
    /\ ob_writer = None
    /\ ob_call   = NoCall
    /\ req       = NoCall
    /\ feed      = NoCall
    /\ sys       = NoCall
    /\ mm        = NoCall
    /\ la        = NoCall
    /\ le        = [ exec |-> LiveExecutorNew, venue |-> VenueNew, op |-> "new" ]

\* The venue credits or debits the account.
VenueBalance ==
    \E b \in VenueBalances :
        /\ b # le.venue.balance
        /\ le' = [ exec |-> le.exec, venue |-> [ le.venue EXCEPT !.balance = b ],
                   op |-> "venue" ]
        /\ UNCHANGED <<stateVars, riskVars, breakerVars, paperVars, trackerVars,
                       req, feed, sys, mm, la>>

\* The venue opens or closes a position (a fill, a settlement).
VenuePosition ==
    \E w \in VenuePositionWrites :
        /\ le' = [ exec |-> le.exec,
                   venue |-> [ le.venue EXCEPT
                                 !.positions = update_position(@, w[1], w[2], w[3], w[4]) ],
                   op |-> "venue" ]
        /\ UNCHANGED <<stateVars, riskVars, breakerVars, paperVars, trackerVars,
                       req, feed, sys, mm, la>>

\* The venue fills an open order in part, or closes it (filled, expired or
\* cancelled there), after which it reports it no longer.
VenueOrder ==
    \E id \in OrderIds, close \in BOOLEAN :
        /\ IsSome(le.venue.orders[id])
        /\ le' = [ exec |-> le.exec,
                   venue |-> [ le.venue EXCEPT
                                 !.orders[id] =
                                     IF close THEN None
                                     ELSE Some([ Unwrap(@) EXCEPT
                                                   !.status = "PARTIALLY_FILLED",
                                                   !.filled_quantity = 5 ]) ],
                   op |-> "venue" ]
        /\ UNCHANGED <<stateVars, riskVars, breakerVars, paperVars, trackerVars,
                       req, feed, sys, mm, la>>

\* LiveExecutor::execute_signal; answered tells whether the call to the
\* venue (create_order, or cancel_all_orders for a cancel) succeeded.
LiveExecuteSignal ==
    \E signal \in LiveSignals, answered \in BOOLEAN :
        /\ (~is_cancel(signal) /\ answered) => le.venue.next_id <= MaxOrders
        /\ IF is_cancel(signal)
           THEN IF answered
                THEN /\ orders' = live_cancel_all(orders, signal.market_slug)
                     /\ le' = [ exec |-> le.exec,
                                venue |-> [ le.venue EXCEPT !.orders =
                                    [ i \in OrderIds |->
                                        IF /\ IsSome(@[i])
                                           /\ Unwrap(@[i]).market_slug = signal.market_slug
                                        THEN None ELSE @[i] ] ],
                                op |-> "execute_signal", status |-> "Cancelled" ]
                ELSE /\ orders' = orders
                     /\ le' = [ exec |-> le.exec, venue |-> le.venue,
                                op |-> "execute_signal", status |-> "Rejected" ]
           ELSE IF \/ (/\ is_buy(signal) /\ signal.price > 0
                       /\ max_affordable_qty(balance, signal.price) <= 0)
                   \/ ~answered
                THEN /\ orders' = orders
                     /\ le' = [ exec |-> le.exec, venue |-> le.venue,
                                op |-> "execute_signal", status |-> "Rejected" ]
                ELSE LET id     == le.venue.next_id
                         intent == Unwrap(to_intent(signal.action))
                     IN  /\ orders' = add_order(orders,
                                [ order_id        |-> id,
                                  market_slug     |-> signal.market_slug,
                                  intent          |-> intent,
                                  price           |-> signal.price,
                                  quantity        |-> signal.quantity,
                                  filled_quantity |-> 0,
                                  status          |-> "Open" ])
                         /\ le' = [ exec |-> [ le.exec EXCEPT
                                       !.order_market[id] = Some(signal.market_slug) ],
                                    venue |-> [ le.venue EXCEPT
                                       !.next_id = id + 1,
                                       !.orders[id] = Some(
                                           [ order_id        |-> id,
                                             market_slug     |-> signal.market_slug,
                                             intent          |-> intent_string(intent),
                                             price           |-> Some(signal.price),
                                             quantity        |-> signal.quantity,
                                             filled_quantity |-> 0,
                                             status          |-> "OPEN" ]) ],
                                    op |-> "execute_signal", status |-> "Open" ]
        /\ UNCHANGED <<balance, markets, positions, riskVars, breakerVars, paperVars,
                       trackerVars, req, feed, sys, mm, la>>

\* LiveExecutor::reconcile_state; answered tells, for get_balance,
\* get_positions and get_open_orders, whether the venue answered.  The
\* function returns Ok(()) in every case.
ReconcileState ==
    \E answered \in [ {"balance", "positions", "orders"} -> BOOLEAN ] :
        \E r \in { reconcile_orders(le.exec.order_market, orders,
                                    IF answered["orders"]
                                    THEN Some(venue_open_orders(le.venue)) ELSE None) } :
            /\ balance' = reconcile_balance(balance,
                              IF answered["balance"] THEN Some(le.venue.balance) ELSE None)
            /\ positions' = reconcile_positions(positions,
                              IF answered["positions"]
                              THEN Some(venue_positions(le.venue)) ELSE None)
            /\ orders' = r.orders
            /\ le' = [ exec |-> [ le.exec EXCEPT !.order_market = r.order_market ],
                       venue |-> le.venue,
                       op |-> "reconcile_state", answered |-> answered ]
            /\ UNCHANGED <<markets, riskVars, breakerVars, paperVars, trackerVars,
                           req, feed, sys, mm, la>>

LNext ==
    \/ VenueBalance
    \/ VenuePosition
    \/ VenueOrder
    \/ LiveExecuteSignal
    \/ ReconcileState

LiveSpec == LInit /\ [][LNext]_vars

\* reconcile_state has returned and the venue answered all three calls.
Reconciled ==
    /\ le.op = "reconcile_state"
    /\ \A c \in DOMAIN le.answered : le.answered[c]

\* The store holds the balance of the venue.
BalanceMatchesVenue == balance = le.venue.balance

\* The store holds exactly the positions of the venue.
PositionsMatchVenue ==
    \A k \in PosKeys :
        /\ IsSome(positions[k]) <=> IsSome(le.venue.positions[k])
        /\ IsSome(positions[k])
               => /\ Unwrap(positions[k]).quantity = Unwrap(le.venue.positions[k]).quantity
                  /\ Unwrap(positions[k]).avg_price = Unwrap(le.venue.positions[k]).avg_price

\* No tracked order that the venue does not report as open is in the
\* store.
ClosedOrdersRemoved ==
    \A id \in OrderIds :
        (IsSome(le.exec.order_market[id]) /\ ~IsSome(le.venue.orders[id]))
            => ~IsSome(orders[id])

\* C33.  After a successful live reconcile_state the local state matches
\* the venue: the balance equals the venue's, the local positions are
\* exactly the positions the venue reports, and every tracked order the
\* venue no longer reports as open has been removed from the store.
C33_ReconciledStateMatchesVenue ==
    Reconciled => BalanceMatchesVenue /\ PositionsMatchVenue /\ ClosedOrdersRemoved

-----------------------------------------------------------------------------
(* Specification MarketOrderSpec: the paper executor executing market      *)
(* orders on both sides of one market, against no book, books with levels  *)
(* and a book without any.                                                 *)

\* How many market orders the executor is handed.
MaxMarketOrders == 3

\* A book the feed delivers for a market nobody quotes: no level on either
\* side.
EmptyBookWrites ==
    { <<"mkt-a", [ yes |-> EmptySide, no |-> EmptySide ]>> }

\* Market orders handed to the executor.  The sell of NO asks for more
\* than the buy of NO gets.
MarketSignals ==
    { MkSignal("mkt-a", "BuyYes",  50 * Cent, 3, "High", None),
      MkSignal("mkt-a", "SellYes", 50 * Cent, 3, "Critical", None),
      MkSignal("mkt-a", "BuyNo",   50 * Cent, 1, "High", None),
      MkSignal("mkt-a", "SellNo",  50 * Cent, 2, "High", None) }

MOInit ==
    /\ balance   = PaperInitialBalance
    /\ markets   = [ s \in Slugs |-> None ]
    /\ positions = [ k \in PosKeys |-> None ]
    /\ orders    = [ i \in 1..MaxMarketOrders |-> None ]
    /\ rm        = RiskManagerNew(Config, PaperInitialBalance,
                                  [ k \in PosKeys |-> None ], [ s \in Slugs |-> None ])
    /\ risk_call = NoCall
    /\ BreakerIdle
    /\ orderbook = OrderBookTrackerNew
    /\ pe        = PaperExecutorNew(PaperInitialBalance)
    /\ pe_call   = NoCall
    /\ NetIdle

\* OrderBookTracker::update
UpdateAnyBook ==
    \E bw \in BookWrites \cup EmptyBookWrites :
        /\ orderbook' = tracker_update(orderbook, bw[1], bw[2])
        /\ UNCHANGED <<netVars, stateVars, riskVars, breakerVars, pe, pe_call>>

\* PaperExecutor::execute_signal for a market order.  A call that would
\* hand out more than MaxMarketOrders order ids is not made.
ExecuteMarketSignal ==
    \E signal \in MarketSignals :
        \E r \in { execute_signal(World, signal) } :
            /\ r.w.pe.next_order_id <= MaxMarketOrders + 1
            /\ balance'   = r.w.balance
            /\ positions' = r.w.positions
            /\ orders'    = r.w.orders
            /\ pe'        = r.w.pe
            /\ pe_call'   = [ op |-> "execute_signal", signal |-> signal,
                              result |-> r.result, before |-> World,
                              prev |-> LastCall ]
            /\ UNCHANGED <<netVars, markets, riskVars, breakerVars, orderbook>>

MONext ==
    \/ UpdateAnyBook
    \/ ExecuteMarketSignal

MarketOrderSpec == MOInit /\ [][MONext]_vars

-----------------------------------------------------------------------------
(* Claims on the paper executor's market orders, sells and cash            *)

\* execute_signal has returned from execute_market_order: the signal is a
\* market order that passed the balance and position pre-checks.
MarketOrderExecuted ==
    /\ pe_call.op = "execute_signal"
    /\ ~is_cancel(pe_call.signal)
    /\ pe_call.signal.urgency \in {"Critical", "High"}
    /\ pe_call.result.order_id # NoOrderId

\* The book the tracker holds for the market of the call; execute_signal
\* does not write the tracker.
CallBook == get_full(orderbook, pe_call.signal.market_slug)

\* The tracker holds a book for the market, and it has no level at all.
CallBookHasNoLevel ==
    /\ IsSome(CallBook)
    /\ Unwrap(CallBook).yes = EmptySide
    /\ Unwrap(CallBook).no = EmptySide

\* The signal price adjusted by slippage.
FallbackPrice(pex, signal) ==
    IF is_buy(signal)
    THEN signal.price + MulFrac(signal.price, pex.slippage_bps)
    ELSE signal.price - MulFrac(signal.price, pex.slippage_bps)

\* The order of the call filled in full at the fallback price.
FilledAtFallback ==
    /\ pe_call.result.status = "Filled"
    /\ pe_call.result.filled_quantity = pe_call.signal.quantity
    /\ pe_call.result.avg_fill_price = Some(FallbackPrice(pe, pe_call.signal))

CallFills ==
    IF pe_call.op \in {"execute_signal", "check_resting_orders"}
    THEN SubSeq(pe.fill_history, Len(pe_call.before.pe.fill_history) + 1,
                Len(pe.fill_history))
    ELSE << >>

\* The quantity held under key after the first n fills of the call, from
\* the quantity held before the call: a buy adds its quantity, a sell
\* takes away what is there to take.
RECURSIVE HeldAfter(_, _)
HeldAfter(key, n) ==
    IF n = 0
    THEN IF IsSome(pe_call.before.pe.positions[key])
         THEN Unwrap(pe_call.before.pe.positions[key]).quantity ELSE 0
    ELSE LET f == CallFills[n]
         IN  IF position_key(f.market_slug, f.side) # key THEN HeldAfter(key, n - 1)
             ELSE IF f.is_buy THEN HeldAfter(key, n - 1) + f.quantity
             ELSE Max(HeldAfter(key, n - 1) - f.quantity, 0)

\* C35.  Every paper sell fill (market, immediately crossing limit or
\* resting-order fill) has a quantity no larger than the quantity held on
\* that side immediately before the fill.
C35_SellFillWithinHeld ==
    \A i \in DOMAIN CallFills :
        ~CallFills[i].is_buy
            => CallFills[i].quantity
                   <= HeldAfter(position_key(CallFills[i].market_slug, CallFills[i].side),
                                i - 1)

\* C37.  After any sequence of paper fills the positions of the state
\* store agree with the executor's own positions key by key; closing the
\* YES position of a market leaves its NO position in the store, and the
\* other way round.
C37_StorePositionsAgreeWithExecutor ==
    \A k \in PosKeys :
        /\ IsSome(positions[k]) <=> IsSome(pe.positions[k])
        /\ IsSome(positions[k])
               => /\ Unwrap(positions[k]).quantity = Unwrap(pe.positions[k]).quantity
                  /\ Unwrap(positions[k]).avg_price = Unwrap(pe.positions[k]).avg_price

-----------------------------------------------------------------------------
(* Specification SmallAccountSpec: PaperSpec for an account constructed    *)
(* with $1.60, which one limit buy and one market buy of PaperSignals      *)
(* each pass the balance pre-check of.                                     *)

SmallInitialBalance == 160 * Cent

SmallInit ==
    /\ balance   = SmallInitialBalance
    /\ markets   = [ s \in Slugs |-> None ]
    /\ positions = [ k \in PosKeys |-> None ]
    /\ orders    = [ i \in OrderIds |-> None ]
    /\ rm        = RiskManagerNew(Config, SmallInitialBalance,
                                  [ k \in PosKeys |-> None ], [ s \in Slugs |-> None ])
    /\ risk_call = NoCall
    /\ BreakerIdle
    /\ orderbook = OrderBookTrackerNew
    /\ pe        = PaperExecutorNew(SmallInitialBalance)
    /\ pe_call   = NoCall
    /\ NetIdle

SmallAccountSpec == SmallInit /\ [][PNext]_vars

\* C36.  The paper cash balance is never negative after any sequence of
\* paper-executor operations (market orders, limit orders, resting-order
\* fills and cancels) that starts from a non-negative balance.
C36_PaperBalanceNeverNegative == balance >= 0

-----------------------------------------------------------------------------
(* Specification ExitSpec: the store holds positions and loses cash, the   *)
(* feed moves the markets, and the tick of main runs                       *)
(* StrategyEngine::on_market_update, whose risk pipeline trips the breaker *)
(* of the risk manager on the loss.                                        *)

\* The balance written to the store: the account after a loss of $6,
\* which is more than max_daily_loss.
ExitBalances == { MakerBalance - 6 * Dollar }

\* StateManager::update_balance
WriteBalance ==
    \E b \in ExitBalances :
        /\ b < balance
        /\ balance' = b
        /\ mm' = [ strategy |-> mm.strategy, now |-> mm.now, op |-> "balance" ]
        /\ UNCHANGED <<markets, positions, orders, riskVars, breakerVars, paperVars,
                       trackerVars, req, feed, sys, la, le>>

\* Positions written to the store: three contracts of either side, bought
\* at 0.50.
ExitPositions(slug) ==
    { MakerPosition(slug, side, 3, 0) : side \in Sides }

\* StateManager::update_position: a position of ExitPositions is opened
\* in a store that holds none.
HoldPosition ==
    \E slug \in Slugs :
        \E p \in ExitPositions(slug) :
            /\ position_count(positions) = 0
            /\ positions' = update_position(positions, slug, p.side,
                                            p.quantity, p.avg_price)
            /\ mm' = [ strategy |-> mm.strategy, now |-> mm.now, op |-> "position" ]
            /\ UNCHANGED <<balance, markets, orders, riskVars, breakerVars, paperVars,
                           trackerVars, req, feed, sys, la, le>>

\* StrategyEngine::on_market_update as the market loop of the tick calls
\* it, for a market with valid prices.
EngineUpdate ==
    \E slug \in Slugs :
        /\ IsSome(markets[slug])
        /\ has_valid_prices(MarketStateOf(slug))
        /\ \E e \in { engine_on_market_update(mm.strategy, rm, MarketStateOf(slug),
                                               StorePosition(slug), mm.now) } :
                 /\ rm' = e.output.rm
                 /\ mm' = [ strategy |-> e.mm, now |-> mm.now, op |-> "engine_update",
                            slug |-> slug, position |-> StorePosition(slug),
                            signals |-> e.signals, stop_signals |-> e.stop_signals,
                            approved |-> e.output.approved_signals ]
        /\ UNCHANGED <<stateVars, risk_call, breakerVars, paperVars,
                       trackerVars, req, feed, sys, la, le>>

XNext ==
    \/ FeedMarket
    \/ WriteBalance
    \/ HoldPosition
    \/ EngineUpdate

ExitSpec == MInit /\ [][XNext]_vars

\* The engine has run on a market whose position triggered a stop-loss
\* exit, with the breaker of the risk manager tripped.  The breaker trips
\* in on_state_update at the start of an evaluation and stays tripped, and
\* the exit, being the one signal of urgency High, is evaluated first.
ExitWhileTripped ==
    /\ mm.op = "engine_update"
    /\ mm.stop_signals # << >>
    /\ is_tripped(rm.circuit_breaker)

\* C38.  While the circuit breaker is Tripped, the stop-loss exit signal
\* the market maker emits for a held position, YES or NO, is approved by
\* the risk pipeline.
C38_StopLossExitApprovedWhileTripped ==
    ExitWhileTripped
        => \A i \in DOMAIN mm.stop_signals :
               \E j \in DOMAIN mm.approved :
                   /\ mm.approved[j].market_slug = mm.stop_signals[i].market_slug
                   /\ mm.approved[j].action = mm.stop_signals[i].action
                   /\ mm.approved[j].urgency = "High"

\* C38 for positions on the YES side.
C38_YesExitApprovedWhileTripped ==
    (ExitWhileTripped /\ Unwrap(mm.position).side = "YES")
        => \A i \in DOMAIN mm.stop_signals :
               \E j \in DOMAIN mm.approved :
                   /\ mm.approved[j].action = "SellYes"
                   /\ mm.approved[j].urgency = "High"
                   /\ mm.approved[j].quantity = mm.stop_signals[i].quantity

-----------------------------------------------------------------------------
(* Resting orders of the paper executor and their orders in the store      *)

\* The ids of the orders resting in the executor.
RestingNow == { i \in OrderIds : IsSome(pe.resting_orders[i]) }

\* C39.  At the end of every paper-executor operation each resting order
\* has 0 <= filled_quantity < total_quantity, and the state store holds
\* an order with the same id whose status is Open or PartiallyFilled and
\* whose filled quantity is the same.
C39_RestingOrdersMatchStore ==
    \A i \in RestingNow :
        LET resting == Unwrap(pe.resting_orders[i])
        IN  /\ 0 <= resting.filled_quantity
            /\ resting.filled_quantity < resting.total_quantity
            /\ IsSome(orders[i])
            /\ Unwrap(orders[i]).order_id = resting.order_id
            /\ Unwrap(orders[i]).status \in {"Open", "PartiallyFilled"}
            /\ Unwrap(orders[i]).filled_quantity = resting.filled_quantity

\* C39 witness: check_resting_orders has filled a resting order in part,
\* and it is still resting.
C39_Witness ==
    /\ pe_call.op = "check_resting_orders"
    /\ pe_call.fills # << >>
    /\ \E i \in RestingNow :
           /\ Unwrap(pe.resting_orders[i]).filled_quantity > 0
           /\ Unwrap(orders[i]).status = "PartiallyFilled"

====
